---- MODULE Spec2Model ----
(***************************************************************************)
(* Request validation and typed dispatch of azure-functions-openapi:       *)
(* the conversion helpers and typed parsers of utils.ts, and parseRequest, *)
(* createSafeRequest and wrapTypedHandler of internal/parsing.ts.          *)
(* One invocation of a wrapped typed handler is a process whose position   *)
(* is pc; the request, the schema bundle and the invocation context are    *)
(* chosen in Init.                                                         *)
(* ParserSpec is a caller of the four typed parsers on one request, and    *)
(* ConcSpec several invocations of one wrapped handler in flight at once.  *)
(* TransformSpec is a caller of transformToRouteConfig (transform.ts),     *)
(* RegistrySpec the setup, registration and document endpoints of          *)
(* internal/setup.ts and internal/endpoint.ts, and AssetsSpec the Swagger  *)
(* UI assets handler.                                                      *)
(***************************************************************************)
EXTENDS Integers, Sequences, FiniteSets, TLC

VARIABLES
    request,      \* the HttpRequest handed to the wrapper
    schemas,      \* the RequestSchemas bundle of the route
    context,      \* the InvocationContext handed to the wrapper
    pc,           \* position of the invocation
    parsedParams, \* parseRequest's locals, one per part
    parsedQuery,
    parsedBody,
    parsedHeaders,
    bodyData,     \* parseBody's local: what request.json() resolved to
    calls,        \* operations invoked so far, in order
    bodyReads,    \* invocations of a body-consuming method of the original request
    error,        \* the error in flight in the wrapper's try block
    handlerArgs,  \* the argument object the typed handler received
    handlerOps,   \* property reads the handler made on args.request
    raisedBy,     \* where the error in flight was raised
    outcome,      \* what the wrapper returned or threw
    results,      \* results of the typed parsers called directly, in order
    inflight,     \* invocations of one wrapped handler in flight at once
    safeRequestPrototype, \* data properties written on SAFE_REQUEST_PROTOTYPE
    globalConfig, \* globalConfigManager.config
    registry,     \* openAPIRegistry.definitions
    functions,    \* functions registered by registerPath with the runtime (app.http)
    documentHandlers, \* document endpoints registered by registerOpenAPIHandler (app.http)
    lastCall      \* the last call of the registration and documentation API

vars == <<request, schemas, context, pc, parsedParams, parsedQuery, parsedBody,
          parsedHeaders, bodyData, calls, bodyReads, error, handlerArgs,
          handlerOps, raisedBy, outcome, results, inflight, safeRequestPrototype,
          globalConfig, registry, functions, documentHandlers, lastCall>>

----------------------------------------------------------------------------
(* Bounds *)

MaxHandlerOps == 2

----------------------------------------------------------------------------
(* Values.  A framework value or a parser result is [ref, val]: ref is the *)
(* identity of the object, val its content.                                *)

Parts == {"params", "query", "body", "headers"}

EmptyMap == [k \in {} |-> ""]

Undefined == [ref |-> "undefined", val |-> EmptyMap]

\* A query value seen by a schema: a string, or an array of strings.
Str(v) == [array |-> FALSE, items |-> <<v>>]
Arr(vs) == [array |-> TRUE, items |-> vs]

\* As toLowerCase, leaving the name as the client wrote it.
toLowerCaseUnchanged(name) == name

\* Header names as clients capitalize them, and String.prototype.toLowerCase.
toLowerCase(name) ==
    CASE name = "Content-Type" -> "content-type"
      [] name = "X-Api-Key" -> "x-api-key"
      [] OTHER -> name

\* As IncludesJson, accepting every media type.
IncludesJsonAnyType(contentType) == TRUE

\* contentType?.includes('application/json')
IncludesJson(contentType) ==
    contentType \in {"application/json", "application/json; charset=utf-8"}

----------------------------------------------------------------------------
(* Errors *)

NoError == [type |-> "none", message |-> "", hasZod |-> FALSE, issues |-> <<>>]

ValidationError(message) ==
    [type |-> "ValidationError", message |-> message, hasZod |-> FALSE, issues |-> <<>>]

ValidationErrorZod(message, zodError) ==
    [type |-> "ValidationError", message |-> message, hasZod |-> TRUE,
     issues |-> zodError.issues]

ZodError(issues) == [type |-> "ZodError", message |-> "zod", hasZod |-> FALSE, issues |-> issues]

OtherError(type, message) == [type |-> type, message |-> message, hasZod |-> FALSE, issues |-> <<>>]

\* error instanceof ValidationError
IsValidationError(e) == e.type = "ValidationError"

----------------------------------------------------------------------------
(* Schema coercion adapters *)

\* for (const key in params) if (hasOwnProperty) result[key] = params[key]
convertParamsToObject(params) ==
    [ref |-> "paramsObj", val |-> [k \in DOMAIN params.val |-> params.val[k]]]

RECURSIVE QueryFold(_, _)
QueryFold(entries, result) ==
    IF entries = <<>> THEN result
    ELSE LET key == Head(entries)[1]
             value == Head(entries)[2]
             next ==
                 IF key \notin DOMAIN result
                 THEN [k \in DOMAIN result \cup {key} |->
                          IF k = key THEN Str(value) ELSE result[k]]
                 ELSE IF result[key].array
                 THEN [result EXCEPT ![key] = Arr(Append(result[key].items, value))]
                 ELSE [result EXCEPT ![key] = Arr(<<result[key].items[1], value>>)]
         IN QueryFold(Tail(entries), next)

\* As convertQueryToObject, keeping only the last value of a repeated key.
convertQueryToObjectLastWins(query) ==
    [ref |-> "queryObj",
     val |-> [k \in {query.val[i][1] : i \in DOMAIN query.val} |->
                 LET last == CHOOSE i \in DOMAIN query.val :
                                 /\ query.val[i][1] = k
                                 /\ \A j \in DOMAIN query.val :
                                        j > i => query.val[j][1] # k
                 IN Str(query.val[last][2])]]

convertQueryToObject(query) ==
    [ref |-> "queryObj", val |-> QueryFold(query.val, EmptyMap)]

RECURSIVE HeaderFold(_, _)
HeaderFold(entries, result) ==
    IF entries = <<>> THEN result
    ELSE LET key == toLowerCase(Head(entries)[1])
             value == Head(entries)[2]
         IN HeaderFold(Tail(entries),
                       [k \in DOMAIN result \cup {key} |->
                           IF k = key THEN value ELSE result[k]])

convertHeadersToObject(headers) ==
    [ref |-> "headersObj", val |-> HeaderFold(headers.val, EmptyMap)]

\* request.headers.get(name): case-insensitive lookup, null when absent
RECURSIVE HeadersGet(_, _)
HeadersGet(entries, name) ==
    IF entries = <<>> THEN "null"
    ELSE IF toLowerCase(Head(entries)[1]) = name THEN Head(entries)[2]
    ELSE HeadersGet(Tail(entries), name)

----------------------------------------------------------------------------
(* Schemas.  A schema is "absent", or an object schema with one required   *)
(* key (unknown keys are stripped from its output), or a schema whose      *)
(* parse throws an error that is not a ZodError.                           *)

SchemaKinds == {"absent", "object", "throws"}

RequiredKey(part) ==
    CASE part = "params" -> "id"
      [] part = "query" -> "tag"
      [] part = "body" -> "title"
      [] part = "headers" -> "x-api-key"

\* schema.parse(value): [ok, value, error]
SchemaParse(part, kind, obj) ==
    IF kind = "throws"
    THEN [ok |-> FALSE, value |-> Undefined,
          error |-> OtherError("Error", "schema threw")]
    ELSE IF RequiredKey(part) \in DOMAIN obj.val
    THEN [ok |-> TRUE,
          value |-> [ref |-> "typed",
                     val |-> [k \in {RequiredKey(part)} |-> obj.val[k]]],
          error |-> NoError]
    ELSE [ok |-> FALSE, value |-> Undefined,
          error |-> ZodError(<<[path |-> RequiredKey(part), message |-> "Required"]>>)]

\* As PartMessage, with the headers parser reporting the message of the body.
PartMessageCopied(part) ==
    CASE part = "params" -> "Route parameters validation failed"
      [] part = "query" -> "Query parameters validation failed"
      [] part = "body" -> "Request body validation failed"
      [] part = "headers" -> "Request body validation failed"

PartMessage(part) ==
    CASE part = "params" -> "Route parameters validation failed"
      [] part = "query" -> "Query parameters validation failed"
      [] part = "body" -> "Request body validation failed"
      [] part = "headers" -> "Request headers validation failed"

\* try { return schema.parse(obj) } catch (error) {
\*   if (error instanceof z.ZodError) throw new ValidationError(msg, error);
\*   throw error }
Validate(part, kind, obj) ==
    LET r == SchemaParse(part, kind, obj)
    IN IF r.ok THEN r
       ELSE IF r.error.type = "ZodError"
       THEN [r EXCEPT !.error = ValidationErrorZod(PartMessage(part), r.error)]
       ELSE r

parseRouteParams(params, kind) == Validate("params", kind, convertParamsToObject(params))

parseQueryParams(query, kind) == Validate("query", kind, convertQueryToObject(query))

parseHeaders(headers, kind) == Validate("headers", kind, convertHeadersToObject(headers))

----------------------------------------------------------------------------
(* The request object.  own is the set of its own enumerable properties;   *)
(* every other property it exposes is inherited from its prototype (the    *)
(* framework class defines url, method, headers, body and the body readers *)
(* on the prototype).                                                      *)

dangerousMethods == {"json", "text", "formData", "arrayBuffer", "blob"}

Props == {"url", "method", "headers", "params", "query", "body"} \cup dangerousMethods

GuardMessage(method) ==
    CASE method = "json" -> "Cannot call request.json() - body has already been parsed by the typed handler wrapper."
      [] method = "text" -> "Cannot call request.text() - body has already been parsed by the typed handler wrapper."
      [] method = "formData" -> "Cannot call request.formData() - body has already been parsed by the typed handler wrapper."
      [] method = "arrayBuffer" -> "Cannot call request.arrayBuffer() - body has already been parsed by the typed handler wrapper."
      [] method = "blob" -> "Cannot call request.blob() - body has already been parsed by the typed handler wrapper."

GuardError(method) == OtherError("Error", GuardMessage(method))

\* Reading obj[prop]: own property first, then the prototype chain.
\* SAFE_REQUEST_PROTOTYPE has a throwing getter per dangerous method and
\* Object.prototype above it.
Get(obj, prop) ==
    IF prop \in obj.own \/ obj.proto = "HttpRequest.prototype"
    THEN [kind |-> "value", prop |-> prop, message |-> ""]
    ELSE IF prop \in dangerousMethods
    THEN [kind |-> "throws", prop |-> prop, message |-> GuardMessage(prop)]
    ELSE [kind |-> "undefined", prop |-> prop, message |-> ""]

\* As createSafeRequest, handing out the original request in both cases.
createSafeRequestUnguarded(req, bodyWasParsed) ==
    [ok |-> TRUE, value |-> req, error |-> NoError]

\* Object.assign(Object.create(SAFE_REQUEST_PROTOTYPE), request): copies the
\* own enumerable properties with [[Set]]; a key that meets a getter-only
\* accessor on the prototype makes it throw a TypeError.
createSafeRequest(req, bodyWasParsed) ==
    IF ~bodyWasParsed
    THEN [ok |-> TRUE, value |-> req, error |-> NoError]
    ELSE IF req.own \cap dangerousMethods # {}
    THEN [ok |-> FALSE, value |-> req,
          error |-> OtherError("TypeError", "Cannot set property which has only a getter")]
    ELSE [ok |-> TRUE,
          value |-> [req EXCEPT !.id = "safeRequest", !.proto = "SAFE_REQUEST_PROTOTYPE"],
          error |-> NoError]

\* As RequestJson, with a body that can be read again.
RequestJsonRereadable(stream, bodyUsed) ==
    IF stream.json
    THEN [ok |-> TRUE, value |-> [ref |-> "json", val |-> stream.val], error |-> NoError]
    ELSE [ok |-> FALSE, value |-> Undefined, error |-> OtherError("SyntaxError", "Unexpected token")]

\* request.json() of the framework: the stream can be consumed once.
RequestJson(stream, bodyUsed) ==
    IF bodyUsed
    THEN [ok |-> FALSE, value |-> Undefined, error |-> OtherError("TypeError", "Body is unusable")]
    ELSE IF stream.json
    THEN [ok |-> TRUE, value |-> [ref |-> "json", val |-> stream.val], error |-> NoError]
    ELSE [ok |-> FALSE, value |-> Undefined, error |-> OtherError("SyntaxError", "Unexpected token")]

----------------------------------------------------------------------------
(* Inputs *)

ParamsChoices == {[k \in {"id"} |-> "1"], EmptyMap}

QueryChoices == {<<>>, <<<<"tag", "a">>>>, <<<<"tag", "a">>, <<"tag", "b">>>>}

HeadersChoices ==
    {<<>>,
     <<<<"content-type", "application/json">>>>,
     <<<<"Content-Type", "text/plain">>, <<"x-api-key", "k">>>>,
     <<<<"Content-Type", "application/json; charset=utf-8">>, <<"X-Api-Key", "k">>>>}

StreamChoices ==
    {[json |-> FALSE, val |-> EmptyMap],
     [json |-> TRUE, val |-> [k \in {"title"} |-> "x"]],
     [json |-> TRUE, val |-> [k \in {"other"} |-> "y"]]}

OwnChoices ==
    {{"params", "query"},
     {"params", "query", "url", "method", "headers"},
     Props}

Responses ==
    {[status |-> 200, jsonBody |-> [id |-> "todo"]],
     [status |-> 400, jsonBody |-> [error |-> "rejected by handler", details |-> <<>>]]}

HandlerErrors ==
    {OtherError("Error", "boom"),
     OtherError("string", "thrown string"),
     ValidationError("Failed to parse EasyAuth principal header"),
     ValidationErrorZod("Request body validation failed",
                        ZodError(<<[path |-> "inner", message |-> "Invalid"]>>))}

NoArgs ==
    [params |-> Undefined, query |-> Undefined, body |-> Undefined,
     headers |-> Undefined, request |-> [id |-> "none"], context |-> "none"]

NoOutcome == [kind |-> "none", response |-> [status |-> 0], error |-> NoError]

\* private config: GlobalOpenAPIConfig | null = null
NotConfigured == [set |-> FALSE, routePrefix |-> ""]

NoCall == [op |-> "none"]

\* SAFE_REQUEST_PROTOTYPE as built: the five getters, no data property.
NoData == [own |-> {}, of |-> 0]

Init ==
    /\ \E p \in ParamsChoices, q \in QueryChoices, h \in HeadersChoices,
          s \in StreamChoices, o \in OwnChoices :
          request = [id |-> "request", proto |-> "HttpRequest.prototype", own |-> o,
                     params |-> [ref |-> "request.params", val |-> p],
                     query |-> [ref |-> "request.query", val |-> q],
                     headers |-> [ref |-> "request.headers", val |-> h],
                     stream |-> s]
    /\ schemas \in [Parts -> SchemaKinds]
    /\ context = "context"
    /\ pc = "params"
    /\ parsedParams = Undefined
    /\ parsedQuery = Undefined
    /\ parsedBody = Undefined
    /\ parsedHeaders = Undefined
    /\ bodyData = Undefined
    /\ calls = <<>>
    /\ bodyReads = 0
    /\ error = NoError
    /\ handlerArgs = NoArgs
    /\ handlerOps = 0
    /\ raisedBy = "none"
    /\ outcome = NoOutcome
    /\ results = <<>>
    /\ inflight = <<>>
    /\ safeRequestPrototype = NoData
    /\ globalConfig = NotConfigured
    /\ registry = <<>>
    /\ functions = <<>>
    /\ documentHandlers = {}
    /\ lastCall = NoCall

----------------------------------------------------------------------------
(* parseRequest *)

\* schemas.part ? parse(...) : <original value>
SchemaPresent(kind) == kind # "absent"

\* As PassThrough, handing out the converted plain object of the params.
PassThroughConverted(req, part) ==
    CASE part = "params" -> convertParamsToObject(req.params)
      [] part = "query" -> req.query
      [] part = "body" -> Undefined
      [] part = "headers" -> req.headers

\* The value of a part without a schema.
PassThrough(req, part) ==
    CASE part = "params" -> req.params
      [] part = "query" -> req.query
      [] part = "body" -> Undefined
      [] part = "headers" -> req.headers

\* As AfterPart, with the body parsed before the query.
AfterPartBodyFirst(part) ==
    CASE part = "params" -> "body"
      [] part = "body" -> "query"
      [] part = "query" -> "headers"
      [] part = "headers" -> "safe"

\* Statement order of parseRequest; after the headers the wrapper goes on.
AfterPart(part) ==
    CASE part = "params" -> "query"
      [] part = "query" -> "body"
      [] part = "body" -> "headers"
      [] part = "headers" -> "safe"

\* As OnParserError, with a parseRequest that collects errors and goes on.
OnParserErrorContinue(part) == AfterPart(part)

\* As OnParserError, with a parseRequest that tries the failed part again.
OnParserErrorRetry(part) == part

\* parseRequest has no try block: an error of a parser leaves it at once.
OnParserError(part) == "catch"

Raise(e, where, target) ==
    /\ error' = e
    /\ raisedBy' = where
    /\ pc' = target

ParseParams ==
    /\ pc = "params"
    /\ IF SchemaPresent(schemas["params"])
       THEN LET r == parseRouteParams(request.params, schemas["params"])
            IN /\ calls' = Append(calls, "parseRouteParams")
               /\ IF r.ok
                  THEN /\ parsedParams' = r.value
                       /\ pc' = AfterPart("params")
                       /\ UNCHANGED <<error, raisedBy>>
                  ELSE /\ Raise(r.error, "params", OnParserError("params"))
                       /\ UNCHANGED parsedParams
       ELSE /\ parsedParams' = PassThrough(request, "params")
            /\ pc' = AfterPart("params")
            /\ UNCHANGED <<calls, error, raisedBy>>
    /\ UNCHANGED <<request, schemas, context, globalConfig, registry, functions,
                   documentHandlers, lastCall, inflight, safeRequestPrototype, results, parsedQuery, parsedBody, parsedHeaders,
                   bodyData, bodyReads, handlerArgs, handlerOps, outcome>>

ParseQuery ==
    /\ pc = "query"
    /\ IF SchemaPresent(schemas["query"])
       THEN LET r == parseQueryParams(request.query, schemas["query"])
            IN /\ calls' = Append(calls, "parseQueryParams")
               /\ IF r.ok
                  THEN /\ parsedQuery' = r.value
                       /\ pc' = AfterPart("query")
                       /\ UNCHANGED <<error, raisedBy>>
                  ELSE /\ Raise(r.error, "query", OnParserError("query"))
                       /\ UNCHANGED parsedQuery
       ELSE /\ parsedQuery' = PassThrough(request, "query")
            /\ pc' = AfterPart("query")
            /\ UNCHANGED <<calls, error, raisedBy>>
    /\ UNCHANGED <<request, schemas, context, globalConfig, registry, functions,
                   documentHandlers, lastCall, inflight, safeRequestPrototype, results, parsedParams, parsedBody, parsedHeaders,
                   bodyData, bodyReads, handlerArgs, handlerOps, outcome>>

\* As ContentTypeIsJson, without the Content-Type check.
ContentTypeUnchecked(req) == TRUE

\* const contentType = request.headers.get('content-type');
\* !contentType?.includes('application/json')
ContentTypeIsJson(req) ==
    LET contentType == HeadersGet(req.headers.val, "content-type")
    IN contentType # "null" /\ IncludesJson(contentType)

\* parseBody up to its await: the Content-Type check, then request.json().
ParseBodyStart ==
    /\ pc = "body"
    /\ IF SchemaPresent(schemas["body"])
       THEN IF ContentTypeIsJson(request)
            THEN /\ calls' = calls \o <<"parseBody", "request.json">>
                 /\ bodyReads' = bodyReads + 1
                 /\ pc' = "json"
                 /\ UNCHANGED <<parsedBody, error, raisedBy>>
            ELSE /\ calls' = Append(calls, "parseBody")
                 /\ Raise(ValidationError("Content-Type must be application/json"),
                          "body", OnParserError("body"))
                 /\ UNCHANGED <<parsedBody, bodyReads>>
       ELSE /\ parsedBody' = PassThrough(request, "body")
            /\ pc' = AfterPart("body")
            /\ UNCHANGED <<calls, bodyReads, error, raisedBy>>
    /\ UNCHANGED <<request, schemas, context, globalConfig, registry, functions,
                   documentHandlers, lastCall, inflight, safeRequestPrototype, results, parsedParams, parsedQuery, parsedHeaders,
                   bodyData, handlerArgs, handlerOps, outcome>>

\* As InvalidJsonBody, letting the error of request.json() through.
InvalidJsonBodyRethrown(e) == e

\* try { bodyData = await request.json() }
\* catch (error) { throw new ValidationError('Invalid JSON body') }
InvalidJsonBody(e) == ValidationError("Invalid JSON body")

\* parseBody after its await: request.json() settles, then schema.parse.
ParseBodyResume ==
    /\ pc = "json"
    /\ LET j == RequestJson(request.stream, bodyReads > 1)
       IN IF ~j.ok
          THEN /\ Raise(InvalidJsonBody(j.error), "body", OnParserError("body"))
               /\ UNCHANGED <<parsedBody, bodyData, calls>>
          ELSE LET r == Validate("body", schemas["body"], j.value)
               IN /\ bodyData' = j.value
                  /\ calls' = Append(calls, "schema.parse(bodyData)")
                  /\ IF r.ok
                     THEN /\ parsedBody' = r.value
                          /\ pc' = AfterPart("body")
                          /\ UNCHANGED <<error, raisedBy>>
                     ELSE /\ Raise(r.error, "body", OnParserError("body"))
                          /\ UNCHANGED parsedBody
    /\ UNCHANGED <<request, schemas, context, globalConfig, registry, functions,
                   documentHandlers, lastCall, inflight, safeRequestPrototype, results, parsedParams, parsedQuery, parsedHeaders,
                   bodyReads, handlerArgs, handlerOps, outcome>>

ParseHeaders ==
    /\ pc = "headers"
    /\ IF SchemaPresent(schemas["headers"])
       THEN LET r == parseHeaders(request.headers, schemas["headers"])
            IN /\ calls' = Append(calls, "parseHeaders")
               /\ IF r.ok
                  THEN /\ parsedHeaders' = r.value
                       /\ pc' = AfterPart("headers")
                       /\ UNCHANGED <<error, raisedBy>>
                  ELSE /\ Raise(r.error, "headers", OnParserError("headers"))
                       /\ UNCHANGED parsedHeaders
       ELSE /\ parsedHeaders' = PassThrough(request, "headers")
            /\ pc' = AfterPart("headers")
            /\ UNCHANGED <<calls, error, raisedBy>>
    /\ UNCHANGED <<request, schemas, context, globalConfig, registry, functions,
                   documentHandlers, lastCall, inflight, safeRequestPrototype, results, parsedParams, parsedQuery, parsedBody,
                   bodyData, bodyReads, handlerArgs, handlerOps, outcome>>

----------------------------------------------------------------------------
(* wrapTypedHandler *)

\* As BodyWasParsed, with the condition inverted.
BodyWasParsedInverted(sch) == sch["body"] = "absent"

\* createSafeRequest(request, schemas.body !== undefined)
BodyWasParsed(sch) == sch["body"] # "absent"

\* As HandlerArguments, passing the params of the request instead of the
\* parsed ones.
HandlerArgumentsRawParams(parsed, safeRequest, ctx) ==
    [params |-> safeRequest.params, query |-> parsed.query, body |-> parsed.body,
     headers |-> parsed.headers, request |-> safeRequest, context |-> ctx]

\* handler({ params: parsed.params, query: parsed.query, body: parsed.body,
\*           headers: parsed.headers, request: safeRequest, context })
HandlerArguments(parsed, safeRequest, ctx) ==
    [params |-> parsed.params, query |-> parsed.query, body |-> parsed.body,
     headers |-> parsed.headers, request |-> safeRequest, context |-> ctx]

\* The wrapper builds the guarded request and calls the typed handler.
InvokeHandler ==
    /\ pc = "safe"
    /\ LET s == createSafeRequest(request, BodyWasParsed(schemas))
       IN IF s.ok
          THEN /\ handlerArgs' =
                    HandlerArguments([params |-> parsedParams, query |-> parsedQuery,
                                      body |-> parsedBody, headers |-> parsedHeaders],
                                     s.value, context)
               /\ calls' = calls \o <<"createSafeRequest", "handler">>
               /\ pc' = "handler"
               /\ UNCHANGED <<error, raisedBy>>
          ELSE /\ calls' = Append(calls, "createSafeRequest")
               /\ Raise(s.error, "createSafeRequest", "catch")
               /\ UNCHANGED handlerArgs
    /\ UNCHANGED <<request, schemas, context, globalConfig, registry, functions,
                   documentHandlers, lastCall, inflight, safeRequestPrototype, results, parsedParams, parsedQuery, parsedBody,
                   parsedHeaders, bodyData, bodyReads, handlerOps, outcome>>

\* The handler reads a property of args.request; a body-consuming method it
\* obtains from the original request it invokes.  A throwing getter's error is
\* either handled by the handler or leaves it.
HandlerRead(prop) ==
    /\ pc = "handler"
    /\ handlerOps < MaxHandlerOps
    /\ handlerOps' = handlerOps + 1
    /\ LET r == Get(handlerArgs.request, prop)
       IN \/ /\ r.kind # "throws"
             /\ bodyReads' = IF r.kind = "value" /\ prop \in dangerousMethods
                             THEN bodyReads + 1 ELSE bodyReads
             /\ UNCHANGED <<pc, error, raisedBy>>
          \/ /\ r.kind = "throws"
             /\ UNCHANGED <<pc, error, raisedBy, bodyReads>>
          \/ /\ r.kind = "throws"
             /\ Raise(OtherError("Error", r.message), "handler", "catch")
             /\ UNCHANGED bodyReads
    /\ UNCHANGED <<request, schemas, context, globalConfig, registry, functions,
                   documentHandlers, lastCall, inflight, safeRequestPrototype, results, parsedParams, parsedQuery, parsedBody,
                   parsedHeaders, bodyData, calls, handlerArgs, outcome>>

Returned(response) == [kind |-> "response", response |-> response, error |-> NoError]

Thrown(e) == [kind |-> "thrown", response |-> [status |-> 0], error |-> e]

\* return await handler(...): the handler's response is the wrapper's.
HandlerReturn(response) ==
    /\ pc = "handler"
    /\ outcome' = Returned(response)
    /\ pc' = "done"
    /\ UNCHANGED <<request, schemas, context, globalConfig, registry, functions,
                   documentHandlers, lastCall, inflight, safeRequestPrototype, results, parsedParams, parsedQuery, parsedBody,
                   parsedHeaders, bodyData, calls, bodyReads, error, handlerArgs,
                   handlerOps, raisedBy>>

HandlerThrow(e) ==
    /\ pc = "handler"
    /\ Raise(e, "handler", "catch")
    /\ UNCHANGED <<request, schemas, context, globalConfig, registry, functions,
                   documentHandlers, lastCall, inflight, safeRequestPrototype, results, parsedParams, parsedQuery, parsedBody,
                   parsedHeaders, bodyData, calls, bodyReads, handlerArgs,
                   handlerOps, outcome>>

\* As ValidationResponse, but reading the issues off the error itself.
ValidationResponseNoDetails(e) ==
    [status |-> 400, jsonBody |-> [error |-> e.message, details |-> <<>>]]

\* { status: 400, jsonBody: { error: error.message,
\*                            details: error.zodError?.issues || [] } }
ValidationResponse(e) ==
    [status |-> 400,
     jsonBody |-> [error |-> e.message,
                   details |-> IF e.hasZod THEN e.issues ELSE <<>>]]

\* As CatchOutcome, with a catch block that answers every error itself.
CatchOutcomeCatchAll(e) ==
    IF IsValidationError(e)
    THEN Returned(ValidationResponse(e))
    ELSE Returned([status |-> 500, jsonBody |-> [error |-> e.message, details |-> <<>>]])

\* As CatchOutcome, with a catch block that wraps what it rethrows.
CatchOutcomeWrapped(e) ==
    IF IsValidationError(e)
    THEN Returned(ValidationResponse(e))
    ELSE Thrown(OtherError("Error", "Unhandled error in typed handler"))

\* catch (error) { if (error instanceof ValidationError) return ...; throw error }
CatchOutcome(e) ==
    IF IsValidationError(e) THEN Returned(ValidationResponse(e)) ELSE Thrown(e)

Catch ==
    /\ pc = "catch"
    /\ outcome' = CatchOutcome(error)
    /\ pc' = "done"
    /\ UNCHANGED <<request, schemas, context, globalConfig, registry, functions,
                   documentHandlers, lastCall, inflight, safeRequestPrototype, results, parsedParams, parsedQuery, parsedBody,
                   parsedHeaders, bodyData, calls, bodyReads, error, handlerArgs,
                   handlerOps, raisedBy>>

Next ==
    \/ ParseParams
    \/ ParseQuery
    \/ ParseBodyStart
    \/ ParseBodyResume
    \/ ParseHeaders
    \/ InvokeHandler
    \/ \E prop \in Props : HandlerRead(prop)
    \/ \E response \in Responses : HandlerReturn(response)
    \/ \E e \in HandlerErrors : HandlerThrow(e)
    \/ Catch

Spec == Init /\ [][Next]_vars

\* The handler's promise settles: it resolves or rejects.
HandlerSettles ==
    \/ \E response \in Responses : HandlerReturn(response)
    \/ \E e \in HandlerErrors : HandlerThrow(e)

\* The synchronous steps of the wrapper run to their end, the promise of
\* request.json() settles and the handler's promise settles.
LiveSpec ==
    /\ Spec
    /\ WF_vars(ParseParams \/ ParseQuery \/ ParseBodyStart \/ ParseHeaders
               \/ InvokeHandler \/ Catch)
    /\ WF_vars(ParseBodyResume)
    /\ WF_vars(HandlerSettles)

----------------------------------------------------------------------------
(* The typed parsers called on their own (manual validation style): a      *)
(* caller holds one request and calls parseRouteParams, parseQueryParams,  *)
(* parseBody and parseHeaders on it, in any order, any number of times.    *)

MaxParserCalls == 2

MaxQueryLen == 3

QueryEntries == {<<"tag", "a">>, <<"tag", "b">>, <<"q", "a">>}

RECURSIVE SeqsUpTo(_, _)
SeqsUpTo(S, n) ==
    IF n = 0 THEN {<<>>}
    ELSE LET shorter == SeqsUpTo(S, n - 1)
         IN shorter \cup {Append(q, e) : q \in shorter, e \in S}

\* URLSearchParams: a sequence of (key, value) pairs, keys may repeat.
QueryMultiMaps == SeqsUpTo(QueryEntries, MaxQueryLen)

\* Headers: one entry per name compared case-insensitively.
HeaderSets ==
    {c \o k : c \in {<<>>, <<<<"Content-Type", "application/json">>>>,
                     <<<<"content-type", "text/plain">>>>},
              k \in {<<>>, <<<<"X-Api-Key", "k">>>>, <<<<"x-api-key", "k">>>>}}

\* A directly called parser always has a schema.
ParserSchemas == {[p \in Parts |-> "object"], [p \in Parts |-> "throws"]}

ParserInit ==
    /\ \E p \in ParamsChoices, q \in QueryMultiMaps, h \in HeaderSets,
          s \in StreamChoices :
          request = [id |-> "request", proto |-> "HttpRequest.prototype", own |-> Props,
                     params |-> [ref |-> "request.params", val |-> p],
                     query |-> [ref |-> "request.query", val |-> q],
                     headers |-> [ref |-> "request.headers", val |-> h],
                     stream |-> s]
    /\ schemas \in ParserSchemas
    /\ context = "context"
    /\ pc = "caller"
    /\ parsedParams = Undefined
    /\ parsedQuery = Undefined
    /\ parsedBody = Undefined
    /\ parsedHeaders = Undefined
    /\ bodyData = Undefined
    /\ calls = <<>>
    /\ bodyReads = 0
    /\ error = NoError
    /\ handlerArgs = NoArgs
    /\ handlerOps = 0
    /\ raisedBy = "none"
    /\ outcome = NoOutcome
    /\ results = <<>>
    /\ inflight = <<>>
    /\ safeRequestPrototype = NoData
    /\ globalConfig = NotConfigured
    /\ registry = <<>>
    /\ functions = <<>>
    /\ documentHandlers = {}
    /\ lastCall = NoCall

\* As ReadsBody, with every parser consuming the body of the request.
ReadsBodyAlways(parser) == TRUE

\* Only parseBody is given the request and calls request.json().
ReadsBody(parser) == parser = "parseBody"

\* What a call of a parser gave: the object handed to the schema, the value
\* returned or the error thrown, and the body reads made so far.
Result(parser, input, r, reads) ==
    [op |-> parser, input |-> input, ok |-> r.ok, value |-> r.value,
     error |-> r.error, reads |-> reads]

Failed(e) == [ok |-> FALSE, value |-> Undefined, error |-> e]

CanCall == pc = "caller" /\ Len(results) < MaxParserCalls

ReadsAfter(parser) == IF ReadsBody(parser) THEN bodyReads + 1 ELSE bodyReads

CallParseRouteParams ==
    /\ CanCall
    /\ bodyReads' = ReadsAfter("parseRouteParams")
    /\ results' = Append(results,
           Result("parseRouteParams", convertParamsToObject(request.params),
                  parseRouteParams(request.params, schemas["params"]), bodyReads'))
    /\ UNCHANGED <<request, schemas, context, globalConfig, registry, functions,
                   documentHandlers, lastCall, inflight, safeRequestPrototype, pc, parsedParams, parsedQuery, parsedBody,
                   parsedHeaders, bodyData, calls, error, handlerArgs, handlerOps,
                   raisedBy, outcome>>

CallParseQueryParams ==
    /\ CanCall
    /\ bodyReads' = ReadsAfter("parseQueryParams")
    /\ results' = Append(results,
           Result("parseQueryParams", convertQueryToObject(request.query),
                  parseQueryParams(request.query, schemas["query"]), bodyReads'))
    /\ UNCHANGED <<request, schemas, context, globalConfig, registry, functions,
                   documentHandlers, lastCall, inflight, safeRequestPrototype, pc, parsedParams, parsedQuery, parsedBody,
                   parsedHeaders, bodyData, calls, error, handlerArgs, handlerOps,
                   raisedBy, outcome>>

CallParseHeaders ==
    /\ CanCall
    /\ bodyReads' = ReadsAfter("parseHeaders")
    /\ results' = Append(results,
           Result("parseHeaders", convertHeadersToObject(request.headers),
                  parseHeaders(request.headers, schemas["headers"]), bodyReads'))
    /\ UNCHANGED <<request, schemas, context, globalConfig, registry, functions,
                   documentHandlers, lastCall, inflight, safeRequestPrototype, pc, parsedParams, parsedQuery, parsedBody,
                   parsedHeaders, bodyData, calls, error, handlerArgs, handlerOps,
                   raisedBy, outcome>>

\* parseBody(request, schema) up to its await.
CallParseBodyStart ==
    /\ CanCall
    /\ IF ContentTypeIsJson(request)
       THEN /\ bodyReads' = ReadsAfter("parseBody")
            /\ pc' = "json"
            /\ UNCHANGED results
       ELSE /\ results' = Append(results,
                   Result("parseBody", Undefined,
                          Failed(ValidationError("Content-Type must be application/json")),
                          bodyReads))
            /\ UNCHANGED <<pc, bodyReads>>
    /\ UNCHANGED <<request, schemas, context, globalConfig, registry, functions,
                   documentHandlers, lastCall, inflight, safeRequestPrototype, parsedParams, parsedQuery, parsedBody,
                   parsedHeaders, bodyData, calls, error, handlerArgs, handlerOps,
                   raisedBy, outcome>>

\* parseBody after its await.
CallParseBodyResume ==
    /\ pc = "json"
    /\ LET j == RequestJson(request.stream, bodyReads > 1)
       IN results' = Append(results,
              IF ~j.ok
              THEN Result("parseBody", Undefined, Failed(InvalidJsonBody(j.error)), bodyReads)
              ELSE Result("parseBody", j.value,
                          Validate("body", schemas["body"], j.value), bodyReads))
    /\ pc' = "caller"
    /\ UNCHANGED <<request, schemas, context, globalConfig, registry, functions,
                   documentHandlers, lastCall, inflight, safeRequestPrototype, parsedParams, parsedQuery, parsedBody,
                   parsedHeaders, bodyData, calls, bodyReads, error, handlerArgs,
                   handlerOps, raisedBy, outcome>>

ParserNext ==
    \/ CallParseRouteParams
    \/ CallParseQueryParams
    \/ CallParseHeaders
    \/ CallParseBodyStart
    \/ CallParseBodyResume

ParserSpec == ParserInit /\ [][ParserNext]_vars

----------------------------------------------------------------------------
(* Several invocations of one wrapped typed handler in flight at once.     *)
(* Each invocation runs from one await to the next without interruption;   *)
(* the schema bundle, the handler and SAFE_REQUEST_PROTOTYPE are shared,    *)
(* the locals of the async function are the invocation's own.              *)

MaxInvocations == 2

Invocations == 1..MaxInvocations

ContextOf(i) == "context" \o ToString(i)

ConcRequests ==
    {[id |-> "request", proto |-> "HttpRequest.prototype", own |-> {"params", "query"},
      params |-> [ref |-> "request.params", val |-> [k \in {"id"} |-> "1"]],
      query |-> [ref |-> "request.query", val |-> <<>>],
      headers |-> [ref |-> "request.headers",
                   val |-> <<<<"content-type", "application/json">>>>],
      stream |-> [json |-> TRUE, val |-> [k \in {"title"} |-> "x"]]],
     [id |-> "request", proto |-> "HttpRequest.prototype",
      own |-> {"params", "query", "url", "method", "headers"},
      params |-> [ref |-> "request.params", val |-> [k \in {"id"} |-> "1"]],
      query |-> [ref |-> "request.query", val |-> <<<<"tag", "a">>>>],
      headers |-> [ref |-> "request.headers",
                   val |-> <<<<"Content-Type", "application/json; charset=utf-8">>,
                             <<"X-Api-Key", "k">>>>],
      stream |-> [json |-> TRUE, val |-> [k \in {"title"} |-> "y"]]],
     [id |-> "request", proto |-> "HttpRequest.prototype",
      own |-> {"params", "query", "url", "method", "headers"},
      params |-> [ref |-> "request.params", val |-> EmptyMap],
      query |-> [ref |-> "request.query", val |-> <<>>],
      headers |-> [ref |-> "request.headers",
                   val |-> <<<<"content-type", "application/json">>>>],
      stream |-> [json |-> FALSE, val |-> EmptyMap]]}

ConcSchemas ==
    {[p \in Parts |-> "absent"],
     [p \in Parts |-> IF p = "body" THEN "object" ELSE "absent"],
     [p \in Parts |-> IF p \in {"params", "body"} THEN "object" ELSE "absent"]}

\* Properties the handler reads on args.request.
ConcProps == {"url", "json"}

\* How the handler's promise settles.
ConcSettlements ==
    {Returned(r) : r \in {x \in Responses : x.status = 200}}
        \cup {Thrown(e) : e \in {x \in HandlerErrors : x.type # "string" /\ ~x.hasZod}}

NoParsed ==
    [params |-> Undefined, query |-> Undefined, body |-> Undefined, headers |-> Undefined]

NewInvocation(req, ctx) ==
    [request |-> req, context |-> ctx, pc |-> "start", parsed |-> NoParsed,
     args |-> NoArgs, seen |-> {}, settled |-> NoOutcome, outcome |-> NoOutcome]

ConcInit ==
    /\ request = [id |-> "none"]
    /\ schemas \in ConcSchemas
    /\ context = "context"
    /\ pc = "concurrent"
    /\ parsedParams = Undefined
    /\ parsedQuery = Undefined
    /\ parsedBody = Undefined
    /\ parsedHeaders = Undefined
    /\ bodyData = Undefined
    /\ calls = <<>>
    /\ bodyReads = 0
    /\ error = NoError
    /\ handlerArgs = NoArgs
    /\ handlerOps = 0
    /\ raisedBy = "none"
    /\ outcome = NoOutcome
    /\ results = <<>>
    /\ \E reqs \in [Invocations -> ConcRequests] :
          inflight = [i \in Invocations |-> NewInvocation(reqs[i], ContextOf(i))]
    /\ safeRequestPrototype = NoData
    /\ globalConfig = NotConfigured
    /\ registry = <<>>
    /\ functions = <<>>
    /\ documentHandlers = {}
    /\ lastCall = NoCall

\* schemas.part ? parse(request.part, schemas.part) : request.part
ParsePart(part, req, sch) ==
    IF ~SchemaPresent(sch[part])
    THEN [ok |-> TRUE, value |-> PassThrough(req, part), error |-> NoError]
    ELSE CASE part = "params" -> parseRouteParams(req.params, sch[part])
           [] part = "query" -> parseQueryParams(req.query, sch[part])
           [] part = "headers" -> parseHeaders(req.headers, sch[part])

\* An error thrown inside the try block: the catch block decides.
Caught(inv, e) == [inv EXCEPT !.outcome = CatchOutcome(e), !.pc = "done"]

\* parseRequest from the body's value to its return.
AfterBody(inv, sch) ==
    LET h == ParsePart("headers", inv.request, sch)
    IN IF ~h.ok THEN Caught(inv, h.error)
       ELSE [inv EXCEPT !.parsed.headers = h.value, !.pc = "parsed"]

\* The wrapper from its call to the first await that suspends it.
Begin(inv, sch) ==
    LET p == ParsePart("params", inv.request, sch)
        q == ParsePart("query", inv.request, sch)
    IN IF ~p.ok THEN Caught(inv, p.error)
       ELSE IF ~q.ok THEN Caught(inv, q.error)
       ELSE LET got == [inv EXCEPT !.parsed.params = p.value, !.parsed.query = q.value]
            IN IF ~SchemaPresent(sch["body"])
               THEN AfterBody([got EXCEPT !.parsed.body = PassThrough(inv.request, "body")],
                              sch)
               ELSE IF ContentTypeIsJson(inv.request)
               THEN [got EXCEPT !.pc = "json"]
               ELSE Caught(got, ValidationError("Content-Type must be application/json"))

\* parseBody and parseRequest after request.json() has settled.
Resume(inv, sch) ==
    LET j == RequestJson(inv.request.stream, FALSE)
    IN IF ~j.ok THEN Caught(inv, InvalidJsonBody(j.error))
       ELSE LET r == Validate("body", sch["body"], j.value)
            IN IF ~r.ok THEN Caught(inv, r.error)
               ELSE AfterBody([inv EXCEPT !.parsed.body = r.value], sch)

\* The wrapper after parseRequest has returned: guard, then the handler.
Dispatch(inv, sch) ==
    LET s == createSafeRequest(inv.request, BodyWasParsed(sch))
    IN IF ~s.ok THEN Caught(inv, s.error)
       ELSE [inv EXCEPT !.args = HandlerArguments(inv.parsed, s.value, inv.context),
                        !.pc = "handler"]

\* As PrototypeAfter, with Object.assign writing the properties of the
\* request on the shared prototype.
PrototypeAfterAssign(proto, req, i) == [own |-> proto.own \cup req.own, of |-> i]

\* Object.assign(safeRequest, request) writes on the new object;
\* SAFE_REQUEST_PROTOTYPE is left as it was built.
PrototypeAfter(proto, req, i) == proto

\* Reading a property of args.request in invocation i: as Get, and a
\* property the object lacks is looked up on what SAFE_REQUEST_PROTOTYPE
\* holds.  "of" is the invocation whose request the value comes from.
Observe(obj, prop, proto, i) ==
    LET g == Get(obj, prop)
    IN IF g.kind = "undefined" /\ obj.proto = "SAFE_REQUEST_PROTOTYPE" /\ prop \in proto.own
       THEN [kind |-> "value", prop |-> prop, message |-> "", of |-> proto.of]
       ELSE [kind |-> g.kind, prop |-> prop, message |-> g.message,
             of |-> IF g.kind = "value" THEN i ELSE 0]

Start(i) ==
    /\ inflight[i].pc = "start"
    /\ inflight' = [inflight EXCEPT ![i] = Begin(inflight[i], schemas)]
    /\ UNCHANGED <<request, schemas, context, globalConfig, registry, functions,
                   documentHandlers, lastCall, pc, parsedParams, parsedQuery, parsedBody,
                   parsedHeaders, bodyData, calls, bodyReads, error, handlerArgs,
                   handlerOps, raisedBy, outcome, results, safeRequestPrototype>>

JsonSettles(i) ==
    /\ inflight[i].pc = "json"
    /\ inflight' = [inflight EXCEPT ![i] = Resume(inflight[i], schemas)]
    /\ UNCHANGED <<request, schemas, context, globalConfig, registry, functions,
                   documentHandlers, lastCall, pc, parsedParams, parsedQuery, parsedBody,
                   parsedHeaders, bodyData, calls, bodyReads, error, handlerArgs,
                   handlerOps, raisedBy, outcome, results, safeRequestPrototype>>

CallHandler(i) ==
    /\ inflight[i].pc = "parsed"
    /\ LET next == Dispatch(inflight[i], schemas)
       IN /\ inflight' = [inflight EXCEPT ![i] = next]
          /\ safeRequestPrototype' =
                IF next.pc = "handler" /\ BodyWasParsed(schemas)
                THEN PrototypeAfter(safeRequestPrototype, inflight[i].request, i)
                ELSE safeRequestPrototype
    /\ UNCHANGED <<request, schemas, context, globalConfig, registry, functions,
                   documentHandlers, lastCall, pc, parsedParams, parsedQuery, parsedBody,
                   parsedHeaders, bodyData, calls, bodyReads, error, handlerArgs,
                   handlerOps, raisedBy, outcome, results>>

HandlerObserves(i, prop) ==
    /\ inflight[i].pc = "handler"
    /\ LET o == Observe(inflight[i].args.request, prop, safeRequestPrototype, i)
       IN /\ o \notin inflight[i].seen
          /\ inflight' = [inflight EXCEPT ![i].seen = @ \cup {o}]
    /\ UNCHANGED <<request, schemas, context, globalConfig, registry, functions,
                   documentHandlers, lastCall, pc, parsedParams, parsedQuery, parsedBody,
                   parsedHeaders, bodyData, calls, bodyReads, error, handlerArgs,
                   handlerOps, raisedBy, outcome, results, safeRequestPrototype>>

\* The handler's promise settles; a rejection goes through the catch block.
HandlerSettlesIn(i, settlement) ==
    /\ inflight[i].pc = "handler"
    /\ inflight' = [inflight EXCEPT
                       ![i].settled = settlement,
                       ![i].outcome = IF settlement.kind = "response" THEN settlement
                                      ELSE CatchOutcome(settlement.error),
                       ![i].pc = "done"]
    /\ UNCHANGED <<request, schemas, context, globalConfig, registry, functions,
                   documentHandlers, lastCall, pc, parsedParams, parsedQuery, parsedBody,
                   parsedHeaders, bodyData, calls, bodyReads, error, handlerArgs,
                   handlerOps, raisedBy, outcome, results, safeRequestPrototype>>

ConcNext ==
    \E i \in Invocations :
        \/ Start(i)
        \/ JsonSettles(i)
        \/ CallHandler(i)
        \/ \E prop \in ConcProps : HandlerObserves(i, prop)
        \/ \E settlement \in ConcSettlements : HandlerSettlesIn(i, settlement)

ConcSpec == ConcInit /\ [][ConcNext]_vars

----------------------------------------------------------------------------
(* Route configuration shortcuts (internal/transform.ts).  An optional     *)
(* value is None or Some(v); an absent string or schema is "", which is    *)
(* as falsy as undefined in every test the code makes.                     *)

None == [present |-> FALSE]

Some(v) == [present |-> TRUE, value |-> v]

Returns(v) == [ok |-> TRUE, value |-> v, error |-> NoError]

\* STATUS_CODE_DESCRIPTIONS, the entries of the codes used below.
STATUS_CODE_DESCRIPTIONS ==
    (200 :> "OK") @@ (204 :> "No Content") @@ (404 :> "Not Found")

\* STATUS_CODE_DESCRIPTIONS[code] || `HTTP ${code}`
getStatusCodeDescription(code) ==
    IF code \in DOMAIN STATUS_CODE_DESCRIPTIONS
    THEN STATUS_CODE_DESCRIPTIONS[code]
    ELSE "HTTP " \o ToString(code)

\* for (const ct of contentTypes) content[ct.mediaType] = contentDef
RECURSIVE transformContentTypes(_)
transformContentTypes(contentTypes) ==
    IF contentTypes = <<>> THEN EmptyMap
    ELSE LET ct == contentTypes[Len(contentTypes)]
             rest == transformContentTypes(SubSeq(contentTypes, 1, Len(contentTypes) - 1))
         IN [m \in DOMAIN rest \cup {ct.mediaType} |->
                IF m = ct.mediaType THEN [schema |-> ct.schema] ELSE rest[m]]

\* As DuplicateMediaTypes, finding none.
DuplicateMediaTypesUnchecked(contentTypes) == {}

\* The entries of a content array whose mediaType an earlier entry has.
DuplicateMediaTypes(contentTypes) ==
    {j \in DOMAIN contentTypes :
        \E i \in 1..(j - 1) : contentTypes[i].mediaType = contentTypes[j].mediaType}

\* response.schema && response.content
SchemaAndContent(response) == response.schema # "" /\ response.content.present

transformResponse(response) ==
    LET description == IF response.description # "" THEN response.description
                       ELSE getStatusCodeDescription(response.httpCode)
        code == ToString(response.httpCode)
    IN IF SchemaAndContent(response)
       THEN Failed(OtherError("Error", "Response " \o code
                   \o ": Cannot use both 'schema' and 'content'."))
       ELSE IF response.content.present
       THEN LET dup == DuplicateMediaTypes(response.content.value)
            IN IF dup # {}
               THEN LET first == CHOOSE j \in dup : \A k \in dup : j <= k
                    IN Failed(OtherError("Error", "Response " \o code
                           \o ": Duplicate mediaType '"
                           \o response.content.value[first].mediaType
                           \o "' in content array"))
               ELSE Returns([description |-> description, hasContent |-> TRUE,
                             content |-> transformContentTypes(response.content.value)])
       ELSE IF response.schema # ""
       THEN LET mediaType == IF response.mediaType # "" THEN response.mediaType
                             ELSE "application/json"
            IN Returns([description |-> description, hasContent |-> TRUE,
                        content |-> (mediaType :> [schema |-> response.schema])])
       ELSE Returns([description |-> description, hasContent |-> FALSE,
                     content |-> EmptyMap])

\* for (const response of responses): duplicate check, then
\* result[response.httpCode] = transformResponse(response)
RECURSIVE ResponsesFold(_, _)
ResponsesFold(responses, result) ==
    IF responses = <<>> THEN Returns(result)
    ELSE LET response == Head(responses)
         IN IF response.httpCode \in DOMAIN result
            THEN Failed(OtherError("Error",
                        "Duplicate httpCode: " \o ToString(response.httpCode)))
            ELSE LET t == transformResponse(response)
                 IN IF ~t.ok THEN t
                    ELSE ResponsesFold(Tail(responses),
                                       result @@ (response.httpCode :> t.value))

transformResponses(responses) == ResponsesFold(responses, EmptyMap)

\* !!(config.params || config.query || config.body || config.headers)
hasShortcuts(config) == \E part \in Parts : config[part] # "absent"

\* config.request as it is when given, else the object built from the
\* shortcuts, else undefined.
transformRequest(config) ==
    IF config.request.present THEN Some(config.request.value)
    ELSE IF ~hasShortcuts(config) THEN None
    ELSE Some([params |-> config.params, query |-> config.query,
               body |-> IF config.body # "absent"
                        THEN ("application/json" :> [schema |-> config.body])
                        ELSE EmptyMap,
               headers |-> config.headers])

\* As ResponseAndResponses, never finding both.
ResponseAndResponsesUnchecked(config) == FALSE

\* config.response && config.responses
ResponseAndResponses(config) == config.response # "" /\ config.responses.present

transformToRouteConfig(config) ==
    IF ResponseAndResponses(config)
    THEN Failed(OtherError("Error", "Cannot use both 'response' and 'responses'."))
    ELSE LET responses ==
                 IF config.response # ""
                 THEN Returns(Some(200 :> [description |-> "OK", hasContent |-> TRUE,
                                           content |-> ("application/json" :>
                                                        [schema |-> config.response])]))
                 ELSE IF config.responses.present
                 THEN LET t == transformResponses(config.responses.value)
                      IN IF t.ok THEN Returns(Some(t.value)) ELSE t
                 ELSE Returns(None)
         IN IF ~responses.ok THEN responses
            ELSE Returns([request |-> transformRequest(config),
                          responses |-> responses.value,
                          description |-> config.description,
                          operationId |-> config.operationId])

----------------------------------------------------------------------------
(* A caller of transformToRouteConfig on one FunctionRouteConfig.          *)

MaxResponses == 2

\* A code with a standard text and one without.
HttpCodes == {200, 299}

JsonContent == [mediaType |-> "application/json", schema |-> "TodoSchema"]

XmlContent == [mediaType |-> "application/xml", schema |-> ""]

\* What a ResponseConfig says of its body: nothing, the schema shortcut
\* without and with a mediaType, a content array (empty, one entry, two
\* media types, one media type twice), and both schema and content.
ResponseShapes ==
    {[schema |-> "", mediaType |-> "", content |-> None],
     [schema |-> "TodoSchema", mediaType |-> "", content |-> None],
     [schema |-> "TodoSchema", mediaType |-> "text/plain", content |-> None],
     [schema |-> "", mediaType |-> "", content |-> Some(<<>>)],
     [schema |-> "", mediaType |-> "", content |-> Some(<<JsonContent, XmlContent>>)],
     [schema |-> "", mediaType |-> "", content |-> Some(<<JsonContent, JsonContent>>)],
     [schema |-> "TodoSchema", mediaType |-> "", content |-> Some(<<JsonContent>>)]}

\* Every shape under every code without description, and one entry with a
\* description of its own.
ResponseConfigs ==
    {[httpCode |-> c, description |-> "", schema |-> s.schema,
      mediaType |-> s.mediaType, content |-> s.content] :
        c \in HttpCodes, s \in ResponseShapes}
    \cup {[httpCode |-> 200, description |-> "Custom", schema |-> "TodoSchema",
           mediaType |-> "", content |-> None]}

\* An advanced request configuration: a body of another media type.
AdvancedRequest ==
    [params |-> "absent", query |-> "absent",
     body |-> ("application/xml" :> [schema |-> "object"]), headers |-> "absent"]

\* The request side of a configuration: neither request nor shortcuts,
\* and request together with shortcuts.
NoRequest == [params |-> "absent", body |-> "absent", request |-> None]

BothRequest == [params |-> "object", body |-> "object", request |-> Some(AdvancedRequest)]

RouteConfig(handler, methods, prefix, operationId, req, response, responses) ==
    [handler |-> handler, methods |-> methods, route |-> "todos",
     azureFunctionRoutePrefix |-> prefix, operationId |-> operationId,
     description |-> "", params |-> req.params, query |-> "absent",
     body |-> req.body, headers |-> "absent", request |-> req.request,
     response |-> response, responses |-> responses]

TransformConfigs ==
    {RouteConfig("typed", <<"GET">>, None, "", req, response, responses) :
        req \in {NoRequest, BothRequest}, response \in {"", "TodoSchema"},
        responses \in {None} \cup {Some(rs) : rs \in SeqsUpTo(ResponseConfigs, MaxResponses)}}

\* The variables of the validation pipeline while no request is handled.
NoInvocation ==
    /\ request = [id |-> "none"]
    /\ schemas = [part \in Parts |-> "absent"]
    /\ context = "context"
    /\ pc = "api"
    /\ parsedParams = Undefined
    /\ parsedQuery = Undefined
    /\ parsedBody = Undefined
    /\ parsedHeaders = Undefined
    /\ bodyData = Undefined
    /\ calls = <<>>
    /\ bodyReads = 0
    /\ error = NoError
    /\ handlerArgs = NoArgs
    /\ handlerOps = 0
    /\ raisedBy = "none"
    /\ outcome = NoOutcome
    /\ results = <<>>
    /\ inflight = <<>>
    /\ safeRequestPrototype = NoData

TransformInit ==
    /\ NoInvocation
    /\ globalConfig = NotConfigured
    /\ registry = <<>>
    /\ functions = <<>>
    /\ documentHandlers = {}
    /\ \E config \in TransformConfigs : lastCall = [op |-> "config", options |-> config]

CallTransformToRouteConfig ==
    /\ pc = "api"
    /\ lastCall.op = "config"
    /\ lastCall' = [op |-> "transformToRouteConfig", options |-> lastCall.options,
                    result |-> transformToRouteConfig(lastCall.options)]
    /\ UNCHANGED <<request, schemas, context, pc, parsedParams, parsedQuery,
                   parsedBody, parsedHeaders, bodyData, calls, bodyReads, error,
                   handlerArgs, handlerOps, raisedBy, outcome, results, inflight,
                   safeRequestPrototype, globalConfig, registry, functions,
                   documentHandlers>>

TransformNext == CallTransformToRouteConfig

TransformSpec == TransformInit /\ [][TransformNext]_vars

----------------------------------------------------------------------------
(* Registration and documentation (internal/endpoint.ts, internal/config.ts, *)
(* internal/setup.ts): setupOpenAPI, registerOpenAPIPath and               *)
(* registerOpenAPIWebhook called in any order, and the document endpoints  *)
(* that setupOpenAPI registered serving requests.                          *)

MaxRegistrations == 2

\* routePrefix ? `/${routePrefix}/${route}` : `/${route}`; the routes and
\* prefixes used here hold no slash, so nothing is left to collapse.
normalizeOpenAPIPath(routePrefix, route) ==
    IF routePrefix # "" THEN "/" \o routePrefix \o "/" \o route ELSE "/" \o route

\* method.toLowerCase()
mapHttpMethod(method) ==
    CASE method = "GET" -> "get"
      [] method = "POST" -> "post"
      [] method = "PUT" -> "put"
      [] method = "PATCH" -> "patch"
      [] method = "DELETE" -> "delete"

\* The handler registerPath hands to app.http: the typed handler wrapped
\* with the schemas built from the shortcuts, else the traditional handler,
\* else an error.
ActualHandler(name, options) ==
    IF options.handler = "typed"
    THEN Returns([kind |-> "typed",
                  schemas |-> [params |-> options.params, query |-> options.query,
                               body |-> options.body, headers |-> options.headers]])
    ELSE IF options.handler = "plain"
    THEN Returns([kind |-> "plain", schemas |-> [part \in Parts |-> "absent"]])
    ELSE Failed(OtherError("Error", "Function '" \o name
                    \o "' must provide either 'handler' or 'typedHandler'"))

\* OpenAPIConfigManager.getRoutePrefix
getRoutePrefix(config) ==
    IF ~config.set
    THEN Failed(OtherError("Error", "OpenAPI configuration not initialized. "
                    \o "Please call app.openapi() before registering functions."))
    ELSE Returns(config.routePrefix)

\* As RoutePrefixOf, the global configuration consulted first.
RoutePrefixOfGlobalFirst(options, config) ==
    IF config.set THEN Returns(config.routePrefix)
    ELSE IF options.azureFunctionRoutePrefix.present
              /\ options.azureFunctionRoutePrefix.value # ""
         THEN Returns(options.azureFunctionRoutePrefix.value)
         ELSE getRoutePrefix(config)

\* options.azureFunctionRoutePrefix || globalConfigManager.getRoutePrefix()
RoutePrefixOf(options, config) ==
    IF options.azureFunctionRoutePrefix.present
          /\ options.azureFunctionRoutePrefix.value # ""
    THEN Returns(options.azureFunctionRoutePrefix.value)
    ELSE getRoutePrefix(config)

\* The RouteConfig registered for one HTTP method.
MethodRouteConfig(name, summary, options, transformedConfig, routePrefix, method) ==
    [request |-> transformedConfig.request,
     responses |-> transformedConfig.responses,
     description |-> transformedConfig.description,
     operationId |-> IF options.operationId # "" THEN options.operationId ELSE name,
     summary |-> summary,
     method |-> mapHttpMethod(method),
     path |-> normalizeOpenAPIPath(routePrefix, options.route)]

\* openAPIRegistry.registerWebhook(routeConfig), registerPath(routeConfig)
Definition(isWebHook, routeConfig) ==
    IF isWebHook THEN [type |-> "webhook", webhook |-> routeConfig]
    ELSE [type |-> "route", route |-> routeConfig]

\* app.http(name, {methods, authLevel, handler, route})
Registered(name, options, handler) ==
    [name |-> name, methods |-> options.methods, authLevel |-> "anonymous",
     handler |-> handler, route |-> options.route]

Threw(fns, reg, e) ==
    [functions |-> fns, registry |-> reg, threw |-> TRUE, error |-> e.message]

\* registerPath from its first statement to its return or throw: what the
\* runtime's functions and the registry's definitions are afterwards.
registerPath(name, summary, isWebHook, options, config, fns, reg) ==
    LET actualHandler == ActualHandler(name, options)
    IN IF ~actualHandler.ok THEN Threw(fns, reg, actualHandler.error)
       ELSE LET registered == Append(fns, Registered(name, options, actualHandler.value))
                routePrefix == RoutePrefixOf(options, config)
            IN IF ~routePrefix.ok THEN Threw(registered, reg, routePrefix.error)
               ELSE LET transformedConfig == transformToRouteConfig(options)
                    IN IF ~transformedConfig.ok
                       THEN Threw(registered, reg, transformedConfig.error)
                       ELSE [functions |-> registered,
                             registry |-> reg \o
                                 [i \in 1..Len(options.methods) |->
                                     Definition(isWebHook,
                                         MethodRouteConfig(name, summary, options,
                                             transformedConfig.value, routePrefix.value,
                                             options.methods[i]))],
                             threw |-> FALSE, error |-> ""]

\* The name a function is registered under and whether it is a webhook; a
\* webhook of empty name and no operationId of its own has no operationId.
Registrants ==
    {[name |-> "GetTodo", isWebHook |-> FALSE],
     [name |-> "OnTodo", isWebHook |-> TRUE],
     [name |-> "", isWebHook |-> TRUE]}

OkResponse ==
    [httpCode |-> 200, description |-> "", schema |-> "TodoSchema",
     mediaType |-> "", content |-> None]

\* The summary and options of the registrations made: a typed handler
\* with request and shortcuts and no prefix of its own; the handler of two
\* methods with an operationId, a description and a prefix of its own; a
\* configuration without handler; a configuration with an empty prefix;
\* a configuration with both response and responses.
RegistrationChoices ==
    {[summary |-> "",
      options |-> RouteConfig("typed", <<"GET">>, None, "", BothRequest, "TodoSchema", None)],
     [summary |-> "Update a todo",
      options |-> [RouteConfig("plain", <<"PUT", "PATCH">>, Some("v1"), "UpdateTodo",
                               NoRequest, "", Some(<<OkResponse>>))
                       EXCEPT !.description = "Updates a todo"]],
     [summary |-> "",
      options |-> RouteConfig("none", <<"GET">>, None, "", NoRequest, "TodoSchema", None)],
     [summary |-> "",
      options |-> RouteConfig("plain", <<"POST">>, Some(""), "", NoRequest,
                              "TodoSchema", None)],
     [summary |-> "",
      options |-> RouteConfig("plain", <<"DELETE">>, Some("v1"), "", NoRequest,
                              "TodoSchema", Some(<<OkResponse>>))]}

\* OpenAPISetupConfig: routePrefix and versions left out, and both given;
\* formats ['json'], swaggerUI disabled.
SetupConfigs ==
    {[routePrefix |-> "", versions |-> None, formats |-> <<"json">>],
     [routePrefix |-> "v2", versions |-> Some(<<"2.0", "3.0.3", "3.1.0">>),
      formats |-> <<"json">>]}

RegistryInit ==
    /\ NoInvocation
    /\ globalConfig = NotConfigured
    /\ registry = <<>>
    /\ functions = <<>>
    /\ documentHandlers = {}
    /\ lastCall = NoCall

ValidationUnchanged ==
    UNCHANGED <<request, schemas, context, pc, parsedParams, parsedQuery,
                parsedBody, parsedHeaders, bodyData, calls, bodyReads, error,
                handlerArgs, handlerOps, raisedBy, outcome, results, inflight,
                safeRequestPrototype>>

\* setupOpenAPI(config), with registerOpenAPIHandler for every version and
\* format.
SetupOpenAPI(config) ==
    /\ pc = "api"
    /\ LET versions == IF config.versions.present THEN config.versions.value
                       ELSE <<"3.1.0">>
           documents == {[version |-> versions[i], format |-> config.formats[j]] :
                            i \in DOMAIN versions, j \in DOMAIN config.formats}
       IN /\ globalConfig' = [set |-> TRUE,
                              routePrefix |-> IF config.routePrefix # ""
                                              THEN config.routePrefix ELSE "api"]
          /\ documentHandlers' = documentHandlers \cup documents
          /\ lastCall' = [op |-> "setupOpenAPI", config |-> config]
    /\ UNCHANGED <<registry, functions>>
    /\ ValidationUnchanged

\* registerOpenAPIPath(name, summary, options) and
\* registerOpenAPIWebhook(name, summary, options)
RegisterPath(name, summary, isWebHook, options) ==
    /\ pc = "api"
    /\ Len(functions) < MaxRegistrations
    /\ LET after == registerPath(name, summary, isWebHook, options,
                                 globalConfig, functions, registry)
       IN /\ functions' = after.functions
          /\ registry' = after.registry
          /\ lastCall' = [op |-> "registerPath", name |-> name, isWebHook |-> isWebHook,
                          options |-> options, threw |-> after.threw,
                          error |-> after.error, config |-> globalConfig,
                          functionsBefore |-> Len(functions),
                          registryBefore |-> Len(registry)]
    /\ UNCHANGED <<globalConfig, documentHandlers>>
    /\ ValidationUnchanged

WarningWithDescription(version) ==
    "OUTBOUND WEBHOOK - This is NOT an endpoint you call. "
        \o "When certain events occur, our API will make an HTTP request. "
        \o "Note: This webhook appears under paths for OpenAPI " \o version
        \o " compatibility. ---"

WarningAlone(version) ==
    "OUTBOUND WEBHOOK - This is NOT an endpoint you call. "
        \o "Note: This webhook appears under paths for OpenAPI " \o version
        \o " compatibility."

\* The route configuration a webhook is converted to.
WebhookAsRoute(originalWebhook, version) ==
    [k \in DOMAIN originalWebhook \cup {"x-webhook", "x-outbound-callback"} |->
        IF k = "summary"
        THEN IF originalWebhook.summary # ""
             THEN "[WEBHOOK] " \o originalWebhook.summary
             ELSE "[WEBHOOK] " \o originalWebhook.operationId
        ELSE IF k = "description"
        THEN IF originalWebhook.description # ""
             THEN WarningWithDescription(version) \o originalWebhook.description
             ELSE WarningAlone(version)
        ELSE IF k \in {"x-webhook", "x-outbound-callback"} THEN TRUE
        ELSE originalWebhook[k]]

\* As DropsWebhook, dropping none.
DropsWebhookNever(originalWebhook) == FALSE

\* !originalWebhook.operationId || !originalWebhook.path
DropsWebhook(originalWebhook) ==
    originalWebhook.operationId = "" \/ originalWebhook.path = ""

\* for (const def of openAPIRegistry.definitions) ... processedDefs.push
RECURSIVE processedDefs(_, _)
processedDefs(definitions, version) ==
    IF definitions = <<>> THEN <<>>
    ELSE LET def == Head(definitions)
             rest == processedDefs(Tail(definitions), version)
         IN IF def.type = "webhook"
            THEN IF DropsWebhook(def.webhook) THEN rest
                 ELSE <<[type |-> "route",
                         route |-> WebhookAsRoute(def.webhook, version)]>> \o rest
            ELSE <<def>> \o rest

\* As DefinitionsAfterServing, the processed definitions written back.
DefinitionsAfterServingInPlace(definitions, version) ==
    IF version # "3.1.0" THEN processedDefs(definitions, version) ELSE definitions

\* openAPIRegistry.definitions once the handler has returned: the handler
\* reads the list, and pushes to a list of its own.
DefinitionsAfterServing(definitions, version) == definitions

\* The handler registerOpenAPIHandler registered for a version and format,
\* serving one request; afterOlder tells that the request before it was for
\* a document of a version without webhooks.
ServeDocument(version, format) ==
    /\ pc = "api"
    /\ [version |-> version, format |-> format] \in documentHandlers
    /\ LET definitions == IF version # "3.1.0" THEN processedDefs(registry, version)
                          ELSE registry
       IN lastCall' = [op |-> "document", version |-> version, format |-> format,
                       definitions |-> definitions, status |-> 200,
                       contentType |-> IF format = "json" THEN "application/json"
                                       ELSE "application/x-yaml",
                       afterOlder |-> lastCall.op = "document"
                                         /\ lastCall.version # "3.1.0"]
    /\ registry' = DefinitionsAfterServing(registry, version)
    /\ UNCHANGED <<globalConfig, functions, documentHandlers>>
    /\ ValidationUnchanged

RegistryNext ==
    \/ \E config \in SetupConfigs : SetupOpenAPI(config)
    \/ \E registrant \in Registrants, choice \in RegistrationChoices :
          RegisterPath(registrant.name, choice.summary, registrant.isWebHook,
                       choice.options)
    \/ \E handler \in documentHandlers : ServeDocument(handler.version, handler.format)

RegistrySpec == RegistryInit /\ [][RegistryNext]_vars

----------------------------------------------------------------------------
(* The Swagger UI assets handler (handlers/swagger-ui.ts) serving requests *)
(* for {uiRoute}/assets/{file}.                                            *)

MaxAssetRequests == 2

\* The own properties of the object literal ALLOWED_SWAGGER_FILES.
ALLOWED_SWAGGER_FILES ==
    [file \in {"swagger-ui.css", "swagger-ui-bundle.js", "swagger-ui-standalone-preset.js"} |->
        [path |-> file,
         contentType |-> IF file = "swagger-ui.css" THEN "text/css"
                         ELSE "application/javascript"]]

\* Properties every object literal inherits from Object.prototype: a
\* lookup by one of these names gives a function or an object, which is
\* truthy and has no property path.
ObjectPrototypeProperties ==
    {"constructor", "__proto__", "toString", "valueOf", "hasOwnProperty"}

\* ALLOWED_SWAGGER_FILES[file]
Lookup(file) ==
    IF file \in DOMAIN ALLOWED_SWAGGER_FILES
    THEN [truthy |-> TRUE, hasPath |-> TRUE, path |-> ALLOWED_SWAGGER_FILES[file].path,
          contentType |-> ALLOWED_SWAGGER_FILES[file].contentType]
    ELSE IF file \in ObjectPrototypeProperties
    THEN [truthy |-> TRUE, hasPath |-> FALSE, path |-> "", contentType |-> ""]
    ELSE [truthy |-> FALSE, hasPath |-> FALSE, path |-> "", contentType |-> ""]

\* The values of request.params.file: absent, empty, the whitelisted
\* names, names of inherited properties, and other names.
AssetFiles ==
    {None} \cup {Some(file) : file \in
        {"", "swagger-ui.css", "swagger-ui-bundle.js", "swagger-ui-standalone-preset.js",
         "constructor", "__proto__", "toString", "index.html", "package.json"}}

AssetResponse(status, body, contentType, pathBuilt, fsTouched) ==
    [kind |-> "response", status |-> status, body |-> body,
     contentType |-> contentType, pathBuilt |-> pathBuilt, fsTouched |-> fsTouched]

\* assetsHandler on a request whose file parameter is file, where
\* existsSync gives localExists and rootExists and readFileSync and
\* statSync succeed when readable.  path.join throws a TypeError on an
\* argument that is not a string.  The body of a 200 response is the
\* content of the file, named here by the file's path.
assetsHandler(file, localExists, rootExists, readable) ==
    IF ~file.present \/ file.value = "" \/ ~Lookup(file.value).truthy
    THEN AssetResponse(404, "File not found", "", FALSE, FALSE)
    ELSE LET fileConfig == Lookup(file.value)
         IN IF ~fileConfig.hasPath
            THEN [kind |-> "throw", status |-> 0,
                  body |-> "TypeError: The \"path\" argument must be of type string",
                  contentType |-> "", pathBuilt |-> FALSE, fsTouched |-> FALSE]
            ELSE IF ~localExists /\ ~rootExists
            THEN AssetResponse(404,
                     "Swagger UI assets not found. Please install swagger-ui-dist package.",
                     "", TRUE, TRUE)
            ELSE IF readable
            THEN AssetResponse(200, fileConfig.path, fileConfig.contentType, TRUE, TRUE)
            ELSE AssetResponse(500, "Internal server error", "", TRUE, TRUE)

AssetsInit ==
    /\ NoInvocation
    /\ globalConfig = NotConfigured
    /\ registry = <<>>
    /\ functions = <<>>
    /\ documentHandlers = {}
    /\ lastCall = NoCall

\* One request served by the assets handler; results keeps what the
\* handler returned or threw, request by request.
AssetsRequest(file, localExists, rootExists, readable) ==
    /\ pc = "api"
    /\ Len(results) < MaxAssetRequests
    /\ LET served == assetsHandler(file, localExists, rootExists, readable)
       IN /\ lastCall' = [op |-> "assets", file |-> file, served |-> served]
          /\ results' = Append(results, served)
    /\ UNCHANGED <<request, schemas, context, pc, parsedParams, parsedQuery,
                   parsedBody, parsedHeaders, bodyData, calls, bodyReads, error,
                   handlerArgs, handlerOps, raisedBy, outcome, inflight,
                   safeRequestPrototype, globalConfig, registry, functions,
                   documentHandlers>>

AssetsNext ==
    \E file \in AssetFiles, localExists, rootExists, readable \in BOOLEAN :
        AssetsRequest(file, localExists, rootExists, readable)

AssetsSpec == AssetsInit /\ [][AssetsNext]_vars

----------------------------------------------------------------------------
(* Properties *)

InCalls(op) == \E i \in DOMAIN calls : calls[i] = op

Count(op) == Cardinality({i \in DOMAIN calls : calls[i] = op})

Is400(o) == o.kind = "response" /\ o.response.status = 400

HasJsonContentType ==
    \E i \in DOMAIN request.headers.val :
        /\ request.headers.val[i][1] \in {"content-type", "Content-Type"}
        /\ request.headers.val[i][2] \in {"application/json", "application/json; charset=utf-8"}
        /\ \A j \in 1..(i - 1) :
              request.headers.val[j][1] \notin {"content-type", "Content-Type"}

SchemaRejects(part) ==
    /\ schemas[part] = "object"
    /\ CASE part = "params" -> "id" \notin DOMAIN request.params.val
         [] part = "query" -> \A i \in DOMAIN request.query.val : request.query.val[i][1] # "tag"
         [] part = "headers" -> \A i \in DOMAIN request.headers.val :
                                    request.headers.val[i][1] \notin {"x-api-key", "X-Api-Key"}
         [] part = "body" -> /\ HasJsonContentType
                             /\ request.stream.json
                             /\ "title" \notin DOMAIN request.stream.val

NonJsonContentType == schemas["body"] # "absent" /\ ~HasJsonContentType

MalformedJsonBody ==
    schemas["body"] # "absent" /\ HasJsonContentType /\ ~request.stream.json

SchemaFailsOtherwise(part) ==
    /\ schemas[part] = "throws"
    /\ part = "body" => (HasJsonContentType /\ request.stream.json)

InvalidInput ==
    \/ \E part \in Parts : SchemaRejects(part) \/ SchemaFailsOtherwise(part)
    \/ NonJsonContentType
    \/ MalformedJsonBody

\* C2 as stated: invalid input of any kind never reaches the handler and
\* always yields a 400 response.
C2_AnyInvalidInputGives400 ==
    (pc = "done" /\ InvalidInput) => (~InCalls("handler") /\ Is400(outcome))

\* C2 amended: invalid input never reaches the handler; a schema rejection
\* yields a 400 whose details are the Zod issues, a non-JSON Content-Type or
\* a malformed JSON body yields a 400 with empty details, and when the first
\* failing part is a schema whose parse fails with another error, that
\* error is thrown to the caller instead.
C2_InvalidInputNeverReachesHandler ==
    (pc = "done" /\ InvalidInput)
    => /\ ~InCalls("handler")
       /\ raisedBy \in Parts
       /\ IF schemas[raisedBy] = "throws" /\ error.type # "ValidationError"
          THEN outcome.kind = "thrown" /\ outcome.error = error
          ELSE /\ Is400(outcome)
               /\ outcome.response.jsonBody.error = error.message
               /\ (outcome.response.jsonBody.details # <<>>) = SchemaRejects(raisedBy)

C2_Witness ==
    /\ pc = "done"
    /\ NonJsonContentType
    /\ raisedBy = "body"
    /\ Is400(outcome)
    /\ outcome.response.jsonBody.details = <<>>

\* C3 as stated: whatever the handler throws leaves the wrapper as thrown.
C3_HandlerErrorsNeverCaught ==
    (pc = "done" /\ raisedBy = "handler") => (outcome.kind = "thrown" /\ outcome.error = error)

\* C3 amended: an error thrown by the handler that is not a ValidationError
\* propagates to the caller and no response is made for it; a
\* ValidationError thrown by the handler is answered with the 400 response.
C3_HandlerErrorsPropagateUnlessValidation ==
    (pc = "done" /\ raisedBy = "handler")
    => IF error.type = "ValidationError"
       THEN /\ Is400(outcome)
            /\ outcome.response.jsonBody.error = error.message
       ELSE outcome.kind = "thrown" /\ outcome.error = error

C3_Witness ==
    /\ pc = "done"
    /\ raisedBy = "handler"
    /\ error.type = "string"
    /\ outcome.kind = "thrown"

\* C4: an error that is not a ValidationError, leaving parseRequest,
\* createSafeRequest or the handler (the guard's error included), leaves the
\* wrapper as the same error and is never turned into a response.
C4_OtherErrorsRethrownUnchanged ==
    (pc = "done" /\ raisedBy # "none" /\ error.type # "ValidationError")
    => /\ outcome.kind = "thrown"
       /\ outcome.error = error
       /\ outcome.response = [status |-> 0]

C4_Witness ==
    /\ pc = "done"
    /\ raisedBy = "handler"
    /\ error = [type |-> "Error", message |-> GuardMessage("json"),
                hasZod |-> FALSE, issues |-> <<>>]
    /\ outcome.kind = "thrown"

ParserOrder(op) ==
    CASE op = "parseRouteParams" -> 1
      [] op = "parseQueryParams" -> 2
      [] op = "parseBody" -> 3
      [] op = "request.json" -> 3
      [] op = "schema.parse(bodyData)" -> 3
      [] op = "parseHeaders" -> 4
      [] OTHER -> 5

PartOrder(part) ==
    CASE part = "params" -> 1
      [] part = "query" -> 2
      [] part = "body" -> 3
      [] part = "headers" -> 4
      [] OTHER -> 5

\* C5: the parsers are invoked in the order params, query, body, headers;
\* once a part has failed no parser of a later part is invoked, and when
\* params or query fails request.json() is never called.
C5_FixedOrderFailFast ==
    /\ \A i, j \in DOMAIN calls : i < j => ParserOrder(calls[i]) <= ParserOrder(calls[j])
    /\ \A i \in DOMAIN calls :
          raisedBy \in Parts => ParserOrder(calls[i]) <= PartOrder(raisedBy)
    /\ raisedBy \in {"params", "query"} => ~InCalls("request.json")

C5_Witness ==
    /\ pc = "done"
    /\ raisedBy = "query"
    /\ SchemaRejects("query")
    /\ SchemaRejects("body")
    /\ ~InCalls("parseBody")
    /\ outcome.response.jsonBody.error = "Query parameters validation failed"


ParseRequestReturned ==
    \/ pc \in {"safe", "handler"}
    \/ pc \in {"catch", "done"} /\ raisedBy \in {"createSafeRequest", "handler"}
    \/ pc = "done" /\ raisedBy = "none"

\* C6: every field of parseRequest's result whose schema is absent is the
\* framework value itself (params, query, headers: the same reference) and
\* body is undefined; without a body schema request.json() is never called.
C6_AbsentSchemaPassesThrough ==
    /\ ParseRequestReturned =>
          /\ schemas["params"] = "absent" => parsedParams = request.params
          /\ schemas["query"] = "absent" => parsedQuery = request.query
          /\ schemas["headers"] = "absent" => parsedHeaders = request.headers
          /\ schemas["body"] = "absent" => parsedBody = [ref |-> "undefined", val |-> <<>>]
    /\ schemas["body"] = "absent" => ~InCalls("request.json") /\ bodyData.ref = "undefined"

C6_Witness ==
    /\ ParseRequestReturned
    /\ schemas["body"] = "object"
    /\ schemas["params"] = "absent" /\ schemas["query"] = "absent"
    /\ schemas["headers"] = "absent"
    /\ parsedBody.ref = "typed"
    /\ parsedParams.ref = "request.params"
    /\ request.params.val # <<>>

\* C7: whenever the typed handler is invoked, with a body schema each of
\* json, text, formData, arrayBuffer and blob on the request it receives
\* raises the 'already been parsed' error, and without a body schema it
\* receives the original request itself with every accessor working.
C7_GuardedIffBodySchema ==
    InCalls("handler") =>
        IF schemas["body"] # "absent"
        THEN \A m \in {"json", "text", "formData", "arrayBuffer", "blob"} :
                /\ Get(handlerArgs.request, m).kind = "throws"
                /\ Get(handlerArgs.request, m).message = GuardMessage(m)
        ELSE /\ handlerArgs.request = request
             /\ \A p \in Props : Get(handlerArgs.request, p).kind = "value"

C7_Witness ==
    /\ InCalls("handler")
    /\ schemas["body"] = "object"
    /\ handlerArgs.request.id = "safeRequest"
    /\ handlerOps > 0
    /\ raisedBy = "handler"
    /\ error.message = GuardMessage("blob")

\* C8: when the body was consumed createSafeRequest never fails, and every
\* property of the original other than the five body methods reads the same
\* on the view as on the original.
C8_SafeViewDelegatesEveryProperty ==
    (schemas["body"] # "absent" /\ InCalls("createSafeRequest"))
    => /\ raisedBy # "createSafeRequest"
       /\ InCalls("handler")
       /\ \A p \in Props \ dangerousMethods :
             Get(handlerArgs.request, p) = Get(request, p)

OrchestratorFinished ==
    ParseRequestReturned \/ (pc \in {"catch", "done"} /\ raisedBy \in Parts)

EarlierPartsPass ==
    /\ schemas["params"] = "absent" \/ (schemas["params"] = "object" /\ ~SchemaRejects("params"))
    /\ schemas["query"] = "absent" \/ (schemas["query"] = "object" /\ ~SchemaRejects("query"))

\* C10 as stated: with a body schema every invocation of parseRequest reads
\* the body exactly once.
C10_BodyReadExactlyOnce ==
    (schemas["body"] # "absent" /\ OrchestratorFinished) => Count("request.json") = 1

\* C10 amended: with a body schema parseRequest calls request.json() at most
\* once, and exactly once precisely when the params and query parsers pass
\* and the Content-Type indicates JSON; otherwise it does not read the body.
C10_BodyReadOnceWhenReached ==
    schemas["body"] # "absent" =>
        /\ Count("request.json") <= 1
        /\ OrchestratorFinished =>
              ((Count("request.json") = 1) = (EarlierPartsPass /\ HasJsonContentType))

C10_Witness ==
    /\ schemas["body"] = "object"
    /\ OrchestratorFinished
    /\ schemas["params"] = "object"
    /\ EarlierPartsPass
    /\ HasJsonContentType
    /\ Count("request.json") = 1
    /\ raisedBy = "body"


\* C11: parseBody on a request whose Content-Type does not indicate JSON
\* (an absent header included) raises a ValidationError with the message
\* "Content-Type must be application/json" and no Zod error, before
\* request.json() is called: the body is left unread.
C11_ContentTypeGate ==
    (InCalls("parseBody") /\ ~HasJsonContentType)
    => /\ raisedBy = "body"
       /\ error = [type |-> "ValidationError",
                   message |-> "Content-Type must be application/json",
                   hasZod |-> FALSE, issues |-> <<>>]
       /\ ~InCalls("request.json")
       /\ ~InCalls("schema.parse(bodyData)")
       /\ bodyReads = 0

C11_Witness ==
    /\ InCalls("parseBody")
    /\ request.headers.val # <<>>
    /\ request.headers.val[1] = <<"Content-Type", "text/plain">>
    /\ request.stream.json
    /\ raisedBy = "body"
    /\ pc = "done"

IndexOf(op) == CHOOSE i \in DOMAIN calls : calls[i] = op

\* C12: parseBody runs the Content-Type check, request.json() and the
\* schema's parse in this order; a failure of request.json() raises the
\* ValidationError "Invalid JSON body" without a Zod error, a schema
\* rejection raises "Request body validation failed" with one, and the
\* schema's parse is invoked only after request.json() has succeeded.
C12_BodyStagesInOrder ==
    /\ InCalls("request.json") => (InCalls("parseBody") /\ HasJsonContentType)
    /\ InCalls("schema.parse(bodyData)") =>
          /\ InCalls("request.json")
          /\ IndexOf("request.json") < IndexOf("schema.parse(bodyData)")
          /\ request.stream.json
          /\ bodyData = [ref |-> "json", val |-> request.stream.val]
    /\ (raisedBy = "body" /\ MalformedJsonBody) =>
          /\ error = [type |-> "ValidationError", message |-> "Invalid JSON body",
                      hasZod |-> FALSE, issues |-> <<>>]
          /\ ~InCalls("schema.parse(bodyData)")
    /\ (raisedBy = "body" /\ SchemaRejects("body")) =>
          /\ error.type = "ValidationError"
          /\ error.message = "Request body validation failed"
          /\ error.hasZod

C12_Witness ==
    /\ raisedBy = "body"
    /\ MalformedJsonBody
    /\ schemas["body"] = "object"
    /\ InCalls("request.json")
    /\ error.message = "Invalid JSON body"
    /\ pc = "done"

OwnMessage(part) ==
    CASE part = "params" -> "Route parameters validation failed"
      [] part = "query" -> "Query parameters validation failed"
      [] part = "body" -> "Request body validation failed"
      [] part = "headers" -> "Request headers validation failed"
      [] OTHER -> ""

ParserOf(part) ==
    CASE part = "params" -> "parseRouteParams"
      [] part = "query" -> "parseQueryParams"
      [] part = "body" -> "schema.parse(bodyData)"
      [] part = "headers" -> "parseHeaders"

ParsedOf(part) ==
    CASE part = "params" -> parsedParams
      [] part = "query" -> parsedQuery
      [] part = "body" -> parsedBody
      [] part = "headers" -> parsedHeaders

\* The plain object a parser hands to its schema, read off the request.
SchemaInput(part) ==
    CASE part = "params" -> convertParamsToObject(request.params)
      [] part = "query" -> convertQueryToObject(request.query)
      [] part = "body" -> [ref |-> "json", val |-> request.stream.val]
      [] part = "headers" -> convertHeadersToObject(request.headers)

\* C13: each parser returns the output of its schema when the schema
\* accepts, and when the schema rejects with a Zod error raises a
\* ValidationError with the message of its own part and that Zod error
\* attached; none reports the message of another part.
C13_PartSpecificValidationError ==
    \A part \in Parts :
        /\ (raisedBy = part /\ SchemaRejects(part)) =>
              /\ error.type = "ValidationError"
              /\ error.message = OwnMessage(part)
              /\ error.hasZod
              /\ error.issues = SchemaParse(part, "object", SchemaInput(part)).error.issues
              /\ error.issues # <<>>
        /\ (schemas[part] = "object" /\ InCalls(ParserOf(part)) /\ raisedBy # part) =>
              /\ SchemaParse(part, "object", SchemaInput(part)).ok
              /\ ParsedOf(part) = SchemaParse(part, "object", SchemaInput(part)).value

C13_Witness ==
    /\ raisedBy = "headers"
    /\ SchemaRejects("headers")
    /\ schemas["body"] = "object"
    /\ parsedBody.ref = "typed"
    /\ error.message = "Request headers validation failed"
    /\ pc = "done"

\* C19: within one invocation nothing is retried: each of the four parsers
\* is invoked at most once, the wrapper calls request.json() at most once
\* and the user handler is invoked at most once, whatever the ending.
C19_NoRetries ==
    /\ \A op \in {"parseRouteParams", "parseQueryParams", "parseBody", "parseHeaders",
                  "request.json", "schema.parse(bodyData)", "createSafeRequest",
                  "handler"} : Count(op) <= 1
    /\ Len(calls) <= 8

C19_Witness ==
    /\ pc = "done"
    /\ raisedBy = "handler"
    /\ Count("parseRouteParams") = 1
    /\ Count("parseQueryParams") = 1
    /\ Count("parseBody") = 1
    /\ Count("parseHeaders") = 1
    /\ Count("request.json") = 1
    /\ Count("handler") = 1


HandlerResponseReturned ==
    /\ raisedBy = "none"
    /\ outcome.kind = "response"
    /\ outcome.response \in Responses
    /\ outcome.error.type = "none"

Synthesized400Returned ==
    /\ raisedBy # "none"
    /\ error.type = "ValidationError"
    /\ outcome.kind = "response"
    /\ outcome.response.status = 400
    /\ outcome.response.jsonBody.error = error.message

ErrorPropagated ==
    /\ raisedBy # "none"
    /\ error.type # "ValidationError"
    /\ outcome.kind = "thrown"
    /\ outcome.error = error

\* C20: provided the body read and the user handler settle, every
\* invocation eventually reaches Done with exactly one of three outcomes:
\* the handler's response is returned unchanged, a synthesized 400 is
\* returned, or an error is propagated; when the handler is invoked it
\* receives exactly the params, query, body and headers that parseRequest
\* produced and the context unchanged.
C20_EventuallyDoneWithOneOutcome ==
    /\ <>(pc = "done")
    /\ [](pc = "done" =>
            /\ HandlerResponseReturned \/ Synthesized400Returned \/ ErrorPropagated
            /\ ~(HandlerResponseReturned /\ Synthesized400Returned)
            /\ ~(HandlerResponseReturned /\ ErrorPropagated)
            /\ ~(Synthesized400Returned /\ ErrorPropagated))
    /\ [](InCalls("handler") =>
            /\ handlerArgs.params = parsedParams
            /\ handlerArgs.query = parsedQuery
            /\ handlerArgs.body = parsedBody
            /\ handlerArgs.headers = parsedHeaders
            /\ handlerArgs.context = context)

C20_Witness ==
    /\ pc = "done"
    /\ HandlerResponseReturned
    /\ schemas["params"] = "object"
    /\ schemas["body"] = "object"
    /\ handlerArgs.params.ref = "typed"
    /\ handlerArgs.body.ref = "typed"
    /\ handlerArgs.context = "context"


ResultsOf(parser) == {i \in DOMAIN results : results[i].op = parser}

QueryKeys == {request.query.val[i][1] : i \in DOMAIN request.query.val}

\* The values of a key of the query, in order of appearance.
QueryValues(key) ==
    LET HasKey(e) == e[1] = key
        occurrences == SelectSeq(request.query.val, HasKey)
    IN [i \in 1..Len(occurrences) |-> occurrences[i][2]]

LowerCaseNames == {"content-type", "x-api-key"}

\* Header names that are equal when compared case-insensitively.
SameHeaderName(a, b) ==
    \/ a = b
    \/ {a, b} = {"Content-Type", "content-type"}
    \/ {a, b} = {"X-Api-Key", "x-api-key"}

\* C15: for every header set, the object parseHeaders hands to the schema
\* has only lower-case keys, one per distinct header name compared
\* case-insensitively, each mapped to that header's value, so a schema
\* written with lower-case keys sees the header however it was capitalized.
C15_HeaderObjectLowerCase ==
    \A i \in ResultsOf("parseHeaders") :
        LET obj == results[i].input.val
            hs == request.headers.val
        IN /\ DOMAIN obj \subseteq LowerCaseNames
           /\ Cardinality(DOMAIN obj) = Len(hs)
           /\ \A j \in DOMAIN hs :
                 \E k \in DOMAIN obj :
                     SameHeaderName(k, hs[j][1]) /\ obj[k] = hs[j][2]
           /\ (schemas["headers"] = "object"
               /\ \E j \in DOMAIN hs : SameHeaderName("x-api-key", hs[j][1]))
              => (results[i].ok /\ results[i].value.val["x-api-key"] = "k")

C15_Witness ==
    /\ request.headers.val =
           <<<<"Content-Type", "application/json">>, <<"X-Api-Key", "k">>>>
    /\ schemas["headers"] = "object"
    /\ \E i \in ResultsOf("parseHeaders") :
          /\ DOMAIN results[i].input.val = {"content-type", "x-api-key"}
          /\ results[i].ok

Outcome(i) == [ok |-> results[i].ok, value |-> results[i].value, error |-> results[i].error]

\* C16 as stated: for each of the four typed parsers, parsing the same
\* input a second time yields a result equal to the first (for parseBody,
\* the same request passed twice).
C16_EveryParserIdempotent ==
    \A i, j \in DOMAIN results :
        (i < j /\ results[i].op = results[j].op /\ results[i].ok)
            => Outcome(j) = Outcome(i)

\* C16: parseRouteParams, parseQueryParams and parseHeaders give, for an
\* input that validated, an equal result when given it again; parseBody
\* given the same request again after a successful parse raises the
\* ValidationError "Invalid JSON body", the body having been consumed.
C16_IdempotentExceptBody ==
    \A i, j \in DOMAIN results :
        (i < j /\ results[i].op = results[j].op /\ results[i].ok)
            => IF results[i].op = "parseBody"
               THEN /\ ~results[j].ok
                    /\ results[j].error.type = "ValidationError"
                    /\ results[j].error.message = "Invalid JSON body"
                    /\ ~results[j].error.hasZod
               ELSE Outcome(j) = Outcome(i)

C16_Witness ==
    /\ Len(results) = 2
    /\ results[1].op = "parseBody"
    /\ results[2].op = "parseBody"
    /\ results[1].ok
    /\ results[1].value.val = [k \in {"title"} |-> "x"]
    /\ ~results[2].ok

\* What parseBody gives on a request nothing has been called on.
FreshParseBody ==
    IF ~HasJsonContentType
    THEN [ok |-> FALSE, value |-> Undefined,
          error |-> ValidationError("Content-Type must be application/json")]
    ELSE IF ~request.stream.json
    THEN [ok |-> FALSE, value |-> Undefined, error |-> ValidationError("Invalid JSON body")]
    ELSE Validate("body", schemas["body"], [ref |-> "json", val |-> request.stream.val])

BodyFree == {"parseRouteParams", "parseQueryParams", "parseHeaders"}

\* C17: parseRouteParams, parseQueryParams and parseHeaders, called in any
\* order and any number of times, never read the request body and leave
\* the params, the query and the headers of the request unchanged, so that
\* a later parseBody on the same request behaves as if they had not been
\* called.
C17_BodyFreeParsersLeaveRequest ==
    /\ [][request' = request]_vars
    /\ [](\A i \in DOMAIN results :
            /\ results[i].op \in BodyFree =>
                  results[i].reads = (IF i = 1 THEN 0 ELSE results[i - 1].reads)
            /\ (results[i].op = "parseBody"
                /\ \A j \in 1..(i - 1) : results[j].op \in BodyFree)
               => Outcome(i) = FreshParseBody)

C17_Witness ==
    /\ Len(results) = 2
    /\ results[1].op = "parseQueryParams"
    /\ results[2].op = "parseBody"
    /\ results[2].ok
    /\ bodyReads = 1


\* An invocation run by itself from its call to the handler's entry, or to
\* its end when the handler is not reached.
Alone(i) ==
    LET a == Begin(NewInvocation(inflight[i].request, inflight[i].context), schemas)
        b == IF a.pc = "json" THEN Resume(a, schemas) ELSE a
    IN IF b.pc = "parsed" THEN Dispatch(b, schemas) ELSE b

\* What the wrapper gives for the way the handler settled.
OutcomeFor(settled) ==
    IF settled.kind = "response" THEN settled
    ELSE IF settled.error.type = "ValidationError"
    THEN Returned([status |-> 400,
                   jsonBody |-> [error |-> settled.error.message, details |-> <<>>]])
    ELSE settled

SameArguments(i) ==
    inflight[i].pc \in {"handler", "done"} =>
        /\ inflight[i].args = Alone(i).args
        /\ inflight[i].args.context \in {"none", ContextOf(i)}

SameGuard(i) ==
    \A o \in inflight[i].seen :
        /\ o.kind = Get(Alone(i).args.request, o.prop).kind
        /\ o.message = Get(Alone(i).args.request, o.prop).message
        /\ o.of \in {0, i}

SameOutcome(i) ==
    inflight[i].pc = "done" =>
        inflight[i].outcome = IF Alone(i).pc = "done" THEN Alone(i).outcome
                              ELSE OutcomeFor(inflight[i].settled)

\* C18: when several invocations of the same wrapped typed handler are in
\* flight at once and interleave at their await points, each invocation's
\* handler arguments, the guard on its request and its response or error
\* are those it has when it runs alone, and no invocation observes data of
\* another.
C18_InvocationsIndependent ==
    \A i \in Invocations : SameArguments(i) /\ SameGuard(i) /\ SameOutcome(i)

C18_Witness ==
    /\ schemas["body"] = "object"
    /\ inflight[1].pc = "json"
    /\ inflight[1].request.own = {"params", "query", "url", "method", "headers"}
    /\ inflight[2].pc = "handler"
    /\ inflight[2].args.request.proto = "SAFE_REQUEST_PROTOTYPE"
    /\ \E o \in inflight[2].seen : o.prop = "url" /\ o.kind = "undefined"
    /\ \E o \in inflight[2].seen : o.prop = "json" /\ o.kind = "throws"


\* C21: when validation fails in a typed handler, the automatic 400
\* response body carries the error message under the key "error" and the
\* list of field-level validation issues under the key "issues".
C21_IssuesUnderIssuesKey ==
    (pc = "done" /\ raisedBy \in Parts /\ error.type = "ValidationError" /\ error.hasZod)
    => /\ outcome.kind = "response"
       /\ outcome.response.status = 400
       /\ outcome.response.jsonBody.error = error.message
       /\ "issues" \in DOMAIN outcome.response.jsonBody
       /\ outcome.response.jsonBody["issues"] = error.issues

\* The configuration transformToRouteConfig was called with, and its result.
TransformCalled == lastCall.op = "transformToRouteConfig"

BothSchemaAndContent(responses) ==
    \E i \in DOMAIN responses : responses[i].schema # "" /\ responses[i].content.present

\* C23: transformToRouteConfig throws, and returns no route config, when
\* both response and responses are present and when an entry of responses
\* has both schema and content.
C23_ExclusiveShortcutsRejected ==
    TransformCalled =>
        LET config == lastCall.options
        IN (\/ (config.response # "" /\ config.responses.present)
            \/ (config.responses.present /\ BothSchemaAndContent(config.responses.value)))
           => /\ ~lastCall.result.ok
              /\ lastCall.result.value = Undefined
              /\ lastCall.result.error.type = "Error"

C23_Witness ==
    /\ TransformCalled
    /\ lastCall.options.response = ""
    /\ lastCall.options.responses.present
    /\ Len(lastCall.options.responses.value) = 2
    /\ ~BothSchemaAndContent(SubSeq(lastCall.options.responses.value, 1, 1))
    /\ BothSchemaAndContent(lastCall.options.responses.value)
    /\ ~lastCall.result.ok

RepeatedHttpCode(responses) ==
    \E i, j \in DOMAIN responses : i # j /\ responses[i].httpCode = responses[j].httpCode

RepeatedMediaType(responses) ==
    \E k \in DOMAIN responses :
        /\ responses[k].content.present
        /\ \E i, j \in DOMAIN responses[k].content.value :
              /\ i # j
              /\ responses[k].content.value[i].mediaType
                    = responses[k].content.value[j].mediaType

StandardText(code) ==
    CASE code = 200 -> "OK"
      [] code = 404 -> "Not Found"
      [] OTHER -> "HTTP " \o ToString(code)

\* The entry of the responses object that one ResponseConfig is to produce.
EntryAsDocumented(response, entry) ==
    /\ entry.description = IF response.description # "" THEN response.description
                           ELSE StandardText(response.httpCode)
    /\ response.content.present =>
          LET content == response.content.value
          IN /\ entry.hasContent
             /\ DOMAIN entry.content = {content[i].mediaType : i \in DOMAIN content}
             /\ Cardinality(DOMAIN entry.content) = Len(content)
             /\ \A i \in DOMAIN content :
                   entry.content[content[i].mediaType].schema = content[i].schema
    /\ (~response.content.present /\ response.schema # "") =>
          LET mediaType == IF response.mediaType # "" THEN response.mediaType
                           ELSE "application/json"
          IN /\ entry.hasContent
             /\ DOMAIN entry.content = {mediaType}
             /\ entry.content[mediaType].schema = response.schema
    /\ (~response.content.present /\ response.schema = "") => ~entry.hasContent

\* C24: transformToRouteConfig throws on a repeated httpCode in responses
\* and on a repeated mediaType in a content array; when it returns, the
\* responses object has exactly one entry per httpCode and each content one
\* entry per mediaType, the description defaulting to the standard text of
\* the code or "HTTP <code>", the media type of a schema shortcut to
\* application/json.
C24_DuplicatesRejectedDefaultsApplied ==
    (TransformCalled /\ lastCall.options.responses.present) =>
        LET responses == lastCall.options.responses.value
            result == lastCall.result
        IN /\ (RepeatedHttpCode(responses) \/ RepeatedMediaType(responses)) => ~result.ok
           /\ result.ok =>
                 /\ result.value.responses.present
                 /\ LET object == result.value.responses.value
                    IN /\ DOMAIN object = {responses[i].httpCode : i \in DOMAIN responses}
                       /\ Cardinality(DOMAIN object) = Len(responses)
                       /\ \A i \in DOMAIN responses :
                             EntryAsDocumented(responses[i], object[responses[i].httpCode])

C24_Witness ==
    /\ TransformCalled
    /\ lastCall.result.ok
    /\ lastCall.options.responses.present
    /\ LET responses == lastCall.options.responses.value
       IN /\ Len(responses) = 2
          /\ responses[1].httpCode = 299 /\ responses[1].description = ""
          /\ responses[1].schema # "" /\ responses[1].mediaType = ""
          /\ responses[2].httpCode = 200 /\ responses[2].content.present
          /\ Len(responses[2].content.value) = 2
          /\ lastCall.result.value.responses.value[299].description = "HTTP 299"

\* The last call was a registration, and it returned.
RegistrationReturned == lastCall.op = "registerPath" /\ ~lastCall.threw

RegistrationThrew == lastCall.op = "registerPath" /\ lastCall.threw

\* The route configuration of a definition of the registry.
ConfigOf(def) == IF def.type = "webhook" THEN def.webhook ELSE def.route

\* The definitions the last registration added to the registry.
AddedDefinitions == SubSeq(registry, lastCall.registryBefore + 1, Len(registry))

\* The functions the last registration registered with the runtime.
AddedFunctions == SubSeq(functions, lastCall.functionsBefore + 1, Len(functions))

\* C22: when a route configuration provides request, the shortcuts given
\* with it are ignored: the registered OpenAPI route config carries the
\* request as given, and the route's typed handler validates nothing.
C22_ShortcutsIgnoredWithRequest ==
    (RegistrationReturned /\ lastCall.options.request.present) =>
        /\ \A i \in DOMAIN AddedDefinitions :
              ConfigOf(AddedDefinitions[i]).request = lastCall.options.request
        /\ \A i \in DOMAIN AddedFunctions :
              \A part \in Parts : AddedFunctions[i].handler.schemas[part] = "absent"

NotInitialized ==
    "OpenAPI configuration not initialized. "
        \o "Please call app.openapi() before registering functions."

\* Every definition the last registration added has this path.
AddedUnder(path) ==
    \A i \in DOMAIN AddedDefinitions : ConfigOf(AddedDefinitions[i]).path = path

DocumentServed == lastCall.op = "document"

Lacking(def) ==
    def.type = "webhook" /\ (def.webhook.operationId = "" \/ def.webhook.path = "")

\* The definitions of the registry that are not webhooks lacking an
\* operationId or a path, in order.
Convertible == SelectSeq(registry, LAMBDA def : ~Lacking(def))

\* The route definition that stands for a webhook definition.
StandsFor(def, webhook, version) ==
    /\ def.type = "route"
    /\ DOMAIN def.route = DOMAIN webhook \cup {"x-webhook", "x-outbound-callback"}
    /\ \A k \in DOMAIN webhook \ {"summary", "description"} : def.route[k] = webhook[k]
    /\ def.route.summary = "[WEBHOOK] " \o (IF webhook.summary # "" THEN webhook.summary
                                            ELSE webhook.operationId)
    /\ def.route.description \in {WarningWithDescription(version) \o webhook.description,
                                  WarningAlone(version)}
    /\ def.route["x-webhook"] = TRUE
    /\ def.route["x-outbound-callback"] = TRUE

\* C26: a document of a version other than 3.1.0 is generated from the
\* registry's definitions with every webhook that has an operationId and a
\* path replaced in place by a route definition (summary prefixed with
\* "[WEBHOOK] ", description carrying the warning, x-webhook and
\* x-outbound-callback true), webhooks lacking operationId or path dropped
\* and the other definitions kept in order; a 3.1.0 document is generated
\* from the registry's definitions as they are.
C26_WebhooksDowngraded ==
    DocumentServed =>
        IF lastCall.version = "3.1.0" THEN lastCall.definitions = registry
        ELSE /\ Len(lastCall.definitions) = Len(Convertible)
             /\ \A i \in DOMAIN Convertible :
                   IF Convertible[i].type = "webhook"
                   THEN StandsFor(lastCall.definitions[i], Convertible[i].webhook,
                                  lastCall.version)
                   ELSE lastCall.definitions[i] = Convertible[i]

C26_Witness ==
    /\ DocumentServed
    /\ lastCall.version = "2.0"
    /\ Len(registry) = 3
    /\ Lacking(registry[1])
    /\ registry[2].type = "webhook" /\ registry[2].webhook.description # ""
    /\ Len(lastCall.definitions) = 2
    /\ lastCall.definitions[2].route.summary = "[WEBHOOK] Update a todo"

\* C28: after a call of registerOpenAPIPath or registerOpenAPIWebhook,
\* returned or thrown, the function is registered with the runtime if and
\* only if one route definition per HTTP method of the configuration was
\* added to the registry.
C28_RegistrationAllOrNothing ==
    lastCall.op = "registerPath" =>
        /\ Len(AddedFunctions) <= 1
        /\ Len(AddedFunctions) = 1 <=>
              Len(AddedDefinitions) = Len(lastCall.options.methods)
        /\ AddedFunctions = <<>> => AddedDefinitions = <<>>

\* C29: the definitions in the registry have pairwise distinct
\* operationIds; stated after one registration, whose function name and
\* explicit operationId are trivially pairwise distinct.
C29_OperationIdsDistinct ==
    (RegistrationReturned /\ lastCall.functionsBefore = 0 /\ lastCall.registryBefore = 0) =>
        \A i, j \in DOMAIN registry :
            i # j => ConfigOf(registry[i]).operationId # ConfigOf(registry[j]).operationId

\* A definition as registerPath wrote it: no webhook extension, and the
\* summary the registration was given.
AsRegistered(def) ==
    /\ "x-webhook" \notin DOMAIN ConfigOf(def)
    /\ "x-outbound-callback" \notin DOMAIN ConfigOf(def)
    /\ ConfigOf(def).summary \in {choice.summary : choice \in RegistrationChoices}
    /\ ConfigOf(def).description
          \in {choice.options.description : choice \in RegistrationChoices}

\* C30: serving a document leaves the registry's list of definitions and
\* every route config in it as they were; a 3.1.0 document served after a
\* document of an older version lists the definitions as registered,
\* webhooks as webhooks, without "[WEBHOOK] " prefix or x-webhook extension.
C30_ServingLeavesRegistry ==
    /\ [][lastCall'.op = "document" => registry' = registry]_vars
    /\ [](\A i \in DOMAIN registry : AsRegistered(registry[i]))
    /\ []((DocumentServed /\ lastCall.version = "3.1.0") =>
             /\ lastCall.definitions = registry
             /\ \A i \in DOMAIN lastCall.definitions :
                   AsRegistered(lastCall.definitions[i]))

C30_Witness ==
    /\ DocumentServed
    /\ lastCall.version = "3.1.0"
    /\ lastCall.afterOlder
    /\ Len(registry) = 3
    /\ registry[1].type = "route"
    /\ registry[2].type = "webhook"
    /\ lastCall.definitions[2].type = "webhook"
    /\ lastCall.definitions[2].webhook.summary = "Update a todo"

Whitelisted ==
    {"swagger-ui.css", "swagger-ui-bundle.js", "swagger-ui-standalone-preset.js"}

\* C27: for every value of the file parameter other than the three
\* whitelisted names, an absent one and 'constructor' or '__proto__'
\* included, the assets handler returns 404 'File not found' without
\* building a file path or touching the file system; only whitelisted
\* names are served.
C27_OnlyWhitelistedServed ==
    lastCall.op = "assets" =>
        /\ (~lastCall.file.present \/ lastCall.file.value \notin Whitelisted) =>
              /\ lastCall.served.kind = "response"
              /\ lastCall.served.status = 404
              /\ lastCall.served.body = "File not found"
              /\ ~lastCall.served.pathBuilt
              /\ ~lastCall.served.fsTouched
        /\ lastCall.served.status = 200 =>
              (lastCall.file.present /\ lastCall.file.value \in Whitelisted)
====
